---- MODULE Spec2Model ----
(***************************************************************************)
(* Apple-Analytics: the report request lifecycle (registry, reuse,         *)
(* discovery, creation) of src/src/extract/apple_analytics_client.py and   *)
(* src/unified_etl.py; the curation of raw artifacts into curated records  *)
(* of src/unified_etl.py, src/batch_curate.py, src/unified_onetime_etl.py  *)
(* and src/src/transform/apple_analytics_data_curator_production.py; the   *)
(* completion polling of apple_analytics_client.py; the fetch pipeline of  *)
(* src/unified_etl.py, src/daily_etl.py and                                *)
(* src/src/extract/focused_data_extractor.py; and the extract phase of a   *)
(* run of src/unified_etl.py and                                           *)
(* src/src/orchestration/unified_production_etl.py; the trust shortcut of  *)
(* the registry on its own; the purchases curation of src/unified_etl.py   *)
(* and src/batch_curate.py; the registry file of src/production_manager.py *)
(* and unified_production_etl.py; the order of the steps of a run; the     *)
(* HTTP wrapper _asc_request of apple_analytics_client.py; the             *)
(* classification of a report by its name, the landing of instances under  *)
(* dt= and the run summary of src/unified_etl.py, src/daily_etl.py and     *)
(* focused_data_extractor.py.                                              *)
(***************************************************************************)
EXTENDS Integers, Sequences, FiniteSets, Bags, TLC

VARIABLES
    registry,   \* the S3 request registry: key <<app_id, access_type>> -> entry or NoEntry
    now,        \* the current day (datetime.now, in whole days)
    call,       \* the get-or-create call in progress (its locals and what it did so far)
    prev,       \* the id the last finished call returned, if it was a trusted reuse
    requestState, \* the objects analytics_requests/state/<request_id>.json: id -> range
    raw,        \* raw artifacts: <<processing date, segment>> -> bag of rows
    curated,    \* curated objects: processing-date key -> NoObject or bag of curated rows
    pass,       \* which curation path wrote each curated key since the last landing
    otCurated,  \* per-file curated objects of the one-time transform, by processing date
    clock,      \* datetime.now of the one-time transform (processed_at)
    poller,     \* the poll_request_completion call in progress
    fetcher,    \* the fetch of the instances of one report in progress
    rawStore,   \* the keys of the raw artifacts landed by the fetch pipeline
    runner,     \* the extract phase of a run over several entities
    trust,      \* one evaluation of _should_trust_registry: its inputs and its answer
    purchases,  \* the purchases category: raw rows landed and the curated rows written
    fileReg,    \* the registry file of the orchestrators, its backup and the processes using it
    pipeline,   \* the steps a run has taken, entity by entity and date by date
    http,       \* one _asc_request call: what it sent, refreshed and handed back
    classifier, \* one report name and the category each extractor gave it
    landing,    \* the instances a fetch looked at and the raw keys it wrote for them
    summary     \* the results dict of a run and what happened to each entity

vars == <<registry, now, call, prev, requestState, raw, curated, pass, otCurated, clock, poller,
          fetcher, rawStore, runner, trust, purchases, fileReg, pipeline,
          http, classifier, landing, summary>>

reqVars == <<registry, now, call, prev, requestState>>
curVars == <<raw, curated, pass>>
otVars == <<otCurated, clock>>
pollVars == <<poller>>
fetchVars == <<fetcher, rawStore>>
runVars == <<runner>>
extVars == <<trust, purchases, fileReg, pipeline>>
ext2Vars == <<http, classifier, landing, summary>>
restPoll == <<fetchVars, runVars, extVars, ext2Vars>>
baseVars == <<reqVars, curVars, otVars, pollVars, fetchVars, runVars, ext2Vars>>
coreVars == <<reqVars, curVars, otVars, pollVars, fetchVars, runVars, extVars>>
restOt == <<pollVars, restPoll>> \* what is beside the lifecycle, the curation and otVars
restVars == <<otVars, restOt>>  \* what neither the lifecycle nor the curation touches

----------------------------------------------------------------------------
(* Bounds of the model *)

MaxDay == 30          \* the clock runs over days 0..MaxDay
MaxRawRows == 2       \* at most this many raw lines are landed in all
MaxClock == 2         \* the one-time transform runs at instants 0..MaxClock-1
MaxPolls == 3         \* the max_polls argument of poll_request_completion is 0..MaxPolls
MaxRuns == 2          \* the fetch pipeline runs at most this many times
MaxPurchaseRows == 3  \* at most this many raw purchases lines are landed
MaxSaves == 1         \* a process saves the registry file at most this many times
MaxInstances == 2     \* instances of a report in one pass of an extractor
MaxWords == 2         \* a report name has at most this many of the words
MaxHour == 50         \* created_at and now of _should_trust_registry are hours 0..MaxHour

(* Program constants *)

MaxAgeDays == 30      \* max_age_days passed by create_or_reuse_ongoing_request
MaxRetries == 3       \* max_retries of the find / create retry loops

----------------------------------------------------------------------------
(* Values *)

Apps == {"E1"}
AccessTypes == {"ONGOING", "ONE_TIME_SNAPSHOT"}
Ranges == {"A", "B"}
Rids == {"R1", "R7"}
NoId == "-"
NoCreatedAt == -1     \* an entry whose created_at is missing or does not parse
EXC == 0              \* _asc_request raised instead of returning a response

Keys == Apps \X AccessTypes
NoEntry == [request_id |-> NoId, created_at |-> NoCreatedAt]
Entries == [request_id : Rids, created_at : {NoCreatedAt} \cup (0..MaxDay)]

Statuses == {200, 201, 401, 403, 404, 409, 429, 500}
\* what _asc_request hands back: a status and, where the body carries one, an id
Responses == {r \in [status : Statuses \cup {EXC}, id : Rids \cup {NoId}] :
                  r.id # NoId => r.status \in {200, 201}}

\* a returned value: None, a request id, or (create_or_reuse_one_time_request on a
\* 409 with a registry hit) the registry dict itself
None == [kind |-> "none", id |-> NoId]
IdResult(r) == [kind |-> "id", id |-> r]
EntryResult(e) == [kind |-> "entry", id |-> e.request_id]

EmptyRegistry == [k \in Keys |-> NoEntry]

IdleCall ==
    [op |-> "none", app |-> "E1", range |-> "A", pc |-> "idle", existing |-> NoId,
     attempt |-> 0, result |-> None, path |-> "none",
     verifies |-> <<>>, finds |-> <<>>, posts |-> <<>>, finds409 |-> <<>>,
     disc409 |-> NoId, saved |-> "no", reg0 |-> EmptyRegistry]

NoPrev == [app |-> "E1", id |-> NoId]
NoRange == "-"
NoRequestState == [r \in Rids |-> NoRange]

----------------------------------------------------------------------------
(* The registry helpers of AppleAnalyticsRequestor *)

\* _registry_key_for_app: one object per (app_id, access_type)
RegistryKeyForApp(app, access_type) == <<app, access_type>>

\* _load_request_registry: the entry, or None when the object is missing, is
\* unreadable (ok = FALSE) or carries no request_id
LoadRequestRegistry(reg, app, access_type, ok) ==
    LET e == reg[RegistryKeyForApp(app, access_type)]
    IN  IF ok /\ e.request_id # NoId THEN e ELSE NoEntry

\* SaveRequestRegistry with the put left out
SaveRequestRegistryDropped(reg, app, access_type, rid, today, ok) == reg

\* _save_request_registry: put_object of {request_id, created_at = now}; a failed
\* put (ok = FALSE) is logged and swallowed, the registry stays as it was
SaveRequestRegistry(reg, app, access_type, rid, today, ok) ==
    IF ok
    THEN [reg EXCEPT ![RegistryKeyForApp(app, access_type)] =
             [request_id |-> rid, created_at |-> today]]
    ELSE reg

\* ShouldTrustRegistry with the comparison of the age inverted
ShouldTrustRegistryInverted(entry, max_age_days, today) ==
    IF entry.created_at = NoCreatedAt
    THEN FALSE
    ELSE (today - entry.created_at) > max_age_days

\* _should_trust_registry: age.days < max_age_days; no created_at -> False
ShouldTrustRegistry(entry, max_age_days, today) ==
    IF entry.created_at = NoCreatedAt
    THEN FALSE
    ELSE (today - entry.created_at) < max_age_days

\* VerifyRequestExists taking a 404 for a request that still exists
VerifyRequestExistsKeeps404(resp, skip_on_rate_limit) ==
    IF resp.status = EXC THEN <<FALSE, "error">>
    ELSE IF resp.status = 200 THEN <<TRUE, "valid">>
    ELSE IF resp.status = 429
         THEN IF skip_on_rate_limit THEN <<TRUE, "rate_limited">>
                                    ELSE <<FALSE, "rate_limited">>
    ELSE IF resp.status = 404 THEN <<TRUE, "not_found">>
    ELSE <<FALSE, "status_other">>

\* _verify_request_exists: <<is_valid, reason>>
VerifyRequestExists(resp, skip_on_rate_limit) ==
    IF resp.status = EXC THEN <<FALSE, "error">>
    ELSE IF resp.status = 200 THEN <<TRUE, "valid">>
    ELSE IF resp.status = 429
         THEN IF skip_on_rate_limit THEN <<TRUE, "rate_limited">>
                                    ELSE <<FALSE, "rate_limited">>
    ELSE IF resp.status = 404 THEN <<FALSE, "not_found">>
    ELSE <<FALSE, "status_other">>

\* FindExistingAttempt retrying a 429 or an exception whatever the attempt
FindExistingAttemptNoCap(resp, attempt, max_retries) ==
    IF resp.status = EXC THEN [kind |-> "retry", id |-> NoId]
    ELSE IF resp.status = 200
    THEN IF resp.id # NoId THEN [kind |-> "found", id |-> resp.id]
                           ELSE [kind |-> "none", id |-> NoId]
    ELSE IF resp.status = 429 THEN [kind |-> "retry", id |-> NoId]
    ELSE [kind |-> "none", id |-> NoId]

\* one pass of the loop of _find_existing_ongoing_request_with_retry
FindExistingAttempt(resp, attempt, max_retries) ==
    IF resp.status = EXC
    THEN IF attempt < max_retries - 1 THEN [kind |-> "retry", id |-> NoId]
                                      ELSE [kind |-> "none", id |-> NoId]
    ELSE IF resp.status = 200
    THEN IF resp.id # NoId THEN [kind |-> "found", id |-> resp.id]
                           ELSE [kind |-> "none", id |-> NoId]
    ELSE IF resp.status = 429
    THEN IF attempt < max_retries - 1 THEN [kind |-> "retry", id |-> NoId]
                                      ELSE [kind |-> "none", id |-> NoId]
    ELSE [kind |-> "none", id |-> NoId]

\* CreateAttempt retrying after every answer that is not a 201 or a 409
CreateAttemptRetryAll(resp, attempt, max_retries) ==
    IF resp.status = 201 /\ resp.id # NoId THEN [kind |-> "created", id |-> resp.id]
    ELSE IF resp.status = 409 THEN [kind |-> "conflict", id |-> NoId]
    ELSE IF attempt < max_retries - 1 THEN [kind |-> "retry", id |-> NoId]
    ELSE [kind |-> "fail", id |-> NoId]

\* CreateAttempt retrying a 429 once more than max_retries allows
CreateAttemptOneMore(resp, attempt, max_retries) ==
    IF resp.status = EXC \/ (resp.status = 201 /\ resp.id = NoId)
    THEN IF attempt < max_retries - 1 THEN [kind |-> "retry", id |-> NoId]
                                      ELSE [kind |-> "fail", id |-> NoId]
    ELSE IF resp.status = 201 THEN [kind |-> "created", id |-> resp.id]
    ELSE IF resp.status = 409 THEN [kind |-> "conflict", id |-> NoId]
    ELSE IF resp.status = 429
    THEN IF attempt < max_retries THEN [kind |-> "retry", id |-> NoId]
                                  ELSE [kind |-> "fail", id |-> NoId]
    ELSE [kind |-> "fail", id |-> NoId]

\* one pass of the loop of _create_ongoing_request_with_retry; a 201 whose body
\* carries no data.id raises inside the try and is handled like any exception
CreateAttempt(resp, attempt, max_retries) ==
    IF resp.status = EXC \/ (resp.status = 201 /\ resp.id = NoId)
    THEN IF attempt < max_retries - 1 THEN [kind |-> "retry", id |-> NoId]
                                      ELSE [kind |-> "fail", id |-> NoId]
    ELSE IF resp.status = 201 THEN [kind |-> "created", id |-> resp.id]
    ELSE IF resp.status = 409 THEN [kind |-> "conflict", id |-> NoId]
    ELSE IF resp.status = 429
    THEN IF attempt < max_retries - 1 THEN [kind |-> "retry", id |-> NoId]
                                      ELSE [kind |-> "fail", id |-> NoId]
    ELSE [kind |-> "fail", id |-> NoId]

\* how a POST was answered, as the caller's retry loop tells the answers apart
PostAnswer(resp) ==
    IF resp.status = EXC \/ (resp.status = 201 /\ resp.id = NoId) THEN "exception"
    ELSE IF resp.status = 201 THEN "201"
    ELSE IF resp.status = 409 THEN "409"
    ELSE IF resp.status = 429 THEN "429"
    ELSE "other"

\* After409 with the id that was found dropped
After409Lost(found) == None

\* After409 falling back to the registered id when the lookup finds nothing
After409Stale(found) == IF found # NoId THEN IdResult(found) ELSE IdResult(call.existing)

\* the 409 branch of _create_ongoing_request_with_retry once its lookup has ended:
\* the id found, or None
After409(found) == IF found # NoId THEN IdResult(found) ELSE None

Done(c, result, path) == [c EXCEPT !.pc = "done", !.result = result, !.path = path]

----------------------------------------------------------------------------
(* create_or_reuse_ongoing_request, one step per upstream call *)

\* step 1: registry lookup and the trust shortcut
StartOngoing(app, ok) ==
    /\ call.pc = "idle"
    /\ LET data == LoadRequestRegistry(registry, app, "ONGOING", ok)
           c0 == [IdleCall EXCEPT !.op = "ongoing", !.app = app, !.reg0 = registry,
                                  !.existing = data.request_id]
       IN  call' =
             IF data # NoEntry
             THEN IF ShouldTrustRegistry(data, MaxAgeDays, now)
                  THEN Done(c0, IdResult(data.request_id), "trusted")
                  ELSE [c0 EXCEPT !.pc = "verify"]
             ELSE [c0 EXCEPT !.pc = "find"]
    /\ UNCHANGED <<registry, now, prev, requestState, curVars, restVars>>

\* the existence check of the registered id
Verify(resp) ==
    /\ call.pc = "verify"
    /\ LET v == VerifyRequestExists(resp, TRUE)
           c1 == [call EXCEPT !.verifies = Append(@, v[2])]
       IN  call' =
             IF v[1] THEN Done(c1, IdResult(call.existing),
                               IF v[2] = "valid" THEN "verified" ELSE "assumed")
             ELSE IF v[2] = "rate_limited"
                  THEN Done(c1, IdResult(call.existing), "assumed")
                  ELSE [c1 EXCEPT !.pc = "find", !.attempt = 0]
    /\ UNCHANGED <<registry, now, prev, requestState, curVars, restVars>>

\* step 2: discovery before creation
Find(resp, ok) ==
    /\ call.pc = "find"
    /\ LET o == FindExistingAttempt(resp, call.attempt, MaxRetries)
           c1 == [call EXCEPT !.finds = Append(@, o.kind)]
       IN  IF o.kind = "found"
           THEN /\ registry' = SaveRequestRegistry(registry, call.app, "ONGOING", o.id, now, ok)
                /\ call' = Done([c1 EXCEPT !.saved = IF ok THEN "ok" ELSE "failed"],
                                IdResult(o.id), "discovered")
           ELSE /\ registry' = registry
                /\ call' = IF o.kind = "retry"
                           THEN [c1 EXCEPT !.attempt = @ + 1]
                           ELSE [c1 EXCEPT !.pc = "create", !.attempt = 0]
    /\ UNCHANGED <<now, prev, requestState, curVars, restVars>>

\* step 3: the creation POST
Create(resp, ok) ==
    /\ call.pc = "create"
    /\ LET o == CreateAttempt(resp, call.attempt, MaxRetries)
           c1 == [call EXCEPT !.posts = Append(@, PostAnswer(resp))]
       IN  IF o.kind = "created"
           THEN /\ registry' = SaveRequestRegistry(registry, call.app, "ONGOING", o.id, now, ok)
                /\ call' = Done([c1 EXCEPT !.saved = IF ok THEN "ok" ELSE "failed"],
                                IdResult(o.id), "created")
           ELSE /\ registry' = registry
                /\ call' = IF o.kind = "conflict"
                           THEN [c1 EXCEPT !.pc = "find409", !.attempt = 0]
                           ELSE IF o.kind = "retry"
                           THEN [c1 EXCEPT !.attempt = @ + 1]
                           ELSE Done(c1, None, "create_failed")
    /\ UNCHANGED <<now, prev, requestState, curVars, restVars>>

\* the lookup of the 409 branch
Find409(resp, ok) ==
    /\ call.pc = "find409"
    /\ LET o == FindExistingAttempt(resp, call.attempt, MaxRetries)
           c1 == [call EXCEPT !.finds409 = Append(@, o.kind),
                              !.disc409 = IF resp.status = 200 THEN resp.id ELSE NoId]
       IN  IF o.kind = "retry"
           THEN /\ call' = [c1 EXCEPT !.attempt = @ + 1]
                /\ registry' = registry
           ELSE LET r == After409(o.id)
                IN  IF r # None
                    THEN /\ registry' = SaveRequestRegistry(registry, call.app, "ONGOING",
                                                            r.id, now, ok)
                         /\ call' = Done([c1 EXCEPT !.saved = IF ok THEN "ok" ELSE "failed"],
                                         r, "discovered409")
                    ELSE /\ registry' = registry
                         /\ call' = Done(c1, None, "conflict_unresolved")
    /\ UNCHANGED <<now, prev, requestState, curVars, restVars>>

\* the call returns to its caller
Finish ==
    /\ call.pc = "done"
    /\ prev' = IF call.op = "ongoing" /\ call.path = "trusted"
                THEN [app |-> call.app, id |-> call.result.id]
                ELSE NoPrev
    /\ call' = IdleCall
    /\ UNCHANGED <<registry, now, requestState, curVars, restVars>>

\* days pass between calls
Tick(step) ==
    /\ call.pc = "idle"
    /\ now + step <= MaxDay
    /\ now' = now + step
    /\ UNCHANGED <<registry, call, prev, requestState, curVars, restVars>>

TickSteps == {MaxAgeDays - 1, MaxAgeDays, MaxAgeDays + 1}

----------------------------------------------------------------------------
(* The FIXED_RANGE path: UnifiedETL.create_onetime_request_for_range, which  *)
(* validates the registered id and otherwise calls                           *)
(* AppleAnalyticsRequestor.create_or_reuse_one_time_request                  *)

\* UnifiedETL._validate_request_is_available: only a 200 validates
ValidateRequestIsAvailable(resp) ==
    IF resp.status = EXC THEN FALSE
    ELSE IF resp.status = 200 THEN TRUE
    ELSE IF resp.status = 404 THEN FALSE
    ELSE FALSE

\* create_or_reuse_one_time_request after its POST was answered: what it returns,
\* and the id it saves to the registry (NoId: it saves nothing).  data is what
\* _load_request_registry gives on a 409, aj what
\* _extract_request_id_from_analytics_json finds (NoId: nothing)
OneTimeCreateOutcome(resp, data, aj) ==
    IF resp.status = EXC \/ (resp.status = 201 /\ resp.id = NoId)
    THEN [result |-> None, save |-> NoId, path |-> "create_failed"]
    ELSE IF resp.status = 201
    THEN [result |-> IdResult(resp.id), save |-> resp.id, path |-> "created"]
    ELSE IF resp.status = 409
    THEN IF data # NoEntry
         THEN [result |-> EntryResult(data), save |-> NoId, path |-> "registry409"]
         ELSE IF aj # NoId
         THEN [result |-> IdResult(aj), save |-> aj, path |-> "discovered409"]
         ELSE [result |-> None, save |-> NoId, path |-> "conflict_unresolved"]
    ELSE [result |-> None, save |-> NoId, path |-> "create_failed"]

\* _save_request_state as create_or_reuse_one_time_request calls it, after a 201
\* only: the object state/<rid>.json records the range the request was made for;
\* a failed put (ok = FALSE) is logged and swallowed
SaveRequestState(state, resp, range, ok) ==
    IF resp.status = 201 /\ resp.id # NoId /\ ok
    THEN [state EXCEPT ![resp.id] = range]
    ELSE state

\* steps 1 and 2 up to the first upstream call: read the registry object
StartOnetime(app, range, ok) ==
    /\ call.pc = "idle"
    /\ LET data == LoadRequestRegistry(registry, app, "ONE_TIME_SNAPSHOT", ok)
           c0 == [IdleCall EXCEPT !.op = "onetime", !.app = app, !.range = range,
                                  !.reg0 = registry, !.existing = data.request_id]
       IN  call' = IF data # NoEntry
                   THEN [c0 EXCEPT !.pc = "ot_validate"]
                   ELSE [c0 EXCEPT !.pc = "ot_create"]
    /\ UNCHANGED <<registry, now, prev, requestState, curVars, restVars>>

\* step 2: the existence check of the registered id
OtValidate(resp) ==
    /\ call.pc = "ot_validate"
    /\ LET valid == ValidateRequestIsAvailable(resp)
           c1 == [call EXCEPT !.verifies =
                      Append(@, IF resp.status = 429 THEN "rate_limited"
                                ELSE IF valid THEN "valid" ELSE "invalid")]
       IN  call' = IF valid
                   THEN Done(c1, IdResult(call.existing), "verified")
                   ELSE [c1 EXCEPT !.pc = "ot_create"]
    /\ UNCHANGED <<registry, now, prev, requestState, curVars, restVars>>

\* step 3: create_or_reuse_one_time_request
OtCreate(resp, loadOk, saveOk, aj) ==
    /\ call.pc = "ot_create"
    /\ requestState' = SaveRequestState(requestState, resp, call.range, saveOk)
    /\ LET data == LoadRequestRegistry(registry, call.app, "ONE_TIME_SNAPSHOT", loadOk)
           o == OneTimeCreateOutcome(resp, data, aj)
           c1 == [call EXCEPT !.posts = Append(@, PostAnswer(resp)),
                              !.disc409 = IF resp.status # 409 THEN NoId
                                          ELSE IF data # NoEntry THEN data.request_id
                                          ELSE aj]
       IN  IF o.save # NoId
           THEN /\ registry' = SaveRequestRegistry(registry, call.app, "ONE_TIME_SNAPSHOT",
                                                   o.save, now, saveOk)
                /\ call' = Done([c1 EXCEPT !.saved = IF saveOk THEN "ok" ELSE "failed"],
                                o.result, o.path)
           ELSE /\ registry' = registry
                /\ call' = Done(c1, o.result, o.path)
    /\ UNCHANGED <<now, prev, curVars, restVars>>

----------------------------------------------------------------------------
(* Curation of the downloads category of one entity: raw artifacts under        *)
(* appstore/raw/downloads/dt=<processing date>/app_id=<id>/ are read and one     *)
(* object appstore/curated/downloads/dt=<date>/app_id=<id>/data.parquet written  *)

PDates == {5, 7}          \* processing dates 2025-01-05 and 2025-01-07 (the dt= of a key)
MDates == {5, 7}          \* the dates of the 'Date' column of a row
DownloadTypes == {"First-time download", "Redownload", "Auto-update"}
CountValues == {0, 3, 4}  \* the 'Counts' column

\* a data line of a raw file: its Date, Download Type and Counts columns (the
\* other columns are the same on every line)
RawRows == [Date : MDates, DownloadType : DownloadTypes, Counts : CountValues]

NoObject == [exists |-> FALSE, rows |-> EmptyBag]
Object(b) == [exists |-> TRUE, rows |-> b]

RECURSIVE SumCounts(_)
SumCounts(S) ==
    IF S = {} THEN 0
    ELSE LET r == CHOOSE x \in S : TRUE IN r.Counts + SumCounts(S \ {r})

\* the curated row of a raw row: metric_date from 'Date', total_downloads from
\* 'Counts', download_type from 'Download Type', and the dt column
CuratedRow(r, dtcol) ==
    [metric_date |-> r.Date, download_type |-> r.DownloadType,
     total_downloads |-> r.Counts, dt |-> dtcol]

\* UnifiedETL._transform_dataframe, downloads: drop_duplicates of the raw lines,
\* keep total_downloads > 0, group by every dimension and sum total_downloads
TransformDataframe(b, target_date) ==
    LET distinct == BagToSet(b)
        kept == {r \in distinct : r.Counts > 0}
        groups == {<<r.Date, r.DownloadType>> : r \in kept}
    IN  SetToBag({[metric_date |-> g[1], download_type |-> g[2],
                   total_downloads |->
                       SumCounts({r \in kept : r.Date = g[1] /\ r.DownloadType = g[2]}),
                   dt |-> target_date] : g \in groups})

\* BatchCurator.process_downloads: keep total_downloads > 0, then drop_duplicates of
\* the curated rows; no grouping
BatchTransform(b, date_str) ==
    SetToBag({CuratedRow(r, date_str) : r \in {x \in BagToSet(b) : x.Counts > 0}})

\* AppleAnalyticsDataCurator._curate_downloads_data and _save_curated_data: keep
\* total_downloads > 0, every line kept as often as it occurs; dt is the metric date
ProductionTransform(b) ==
    LET kept == {r \in BagToSet(b) : r.Counts > 0}
    IN  [c \in {CuratedRow(r, r.Date) : r \in kept} |->
            b[CHOOSE r \in kept : CuratedRow(r, r.Date) = c]]

\* a segment file holding line r lands under processing date d
\* (UnifiedETL._download_and_save)
Land(d, r) ==
    /\ BagCardinality(raw[5]) + BagCardinality(raw[7]) < MaxRawRows
    /\ raw' = [raw EXCEPT ![d] = @ (+) SetToBag({r})]
    /\ pass' = [x \in PDates |-> "none"]
    /\ UNCHANGED <<curated, reqVars, restVars>>

\* a mutation of OutputKey: every pass writes the key of the latest processing date
OutputKeyLatest(target_date) == 7

\* the dt= of the curated key a pass over the raw prefix dt=target_date writes:
\* appstore/curated/<type>/dt=<target_date>/app_id=<id>/data.parquet
OutputKey(target_date) == target_date

\* UnifiedETL._curate_app_data('downloads', app, d)
UnifiedCurate(d) ==
    /\ pass' = [pass EXCEPT ![d] = "unified"]
    /\ LET out == TransformDataframe(raw[d], d)
       IN  curated' = IF raw[d] = EmptyBag \/ out = EmptyBag
                      THEN curated
                      ELSE [curated EXCEPT ![OutputKey(d)] = Object(out)]
    /\ UNCHANGED <<raw, reqVars, restVars>>

\* BatchCurator.process_downloads(app, d)
BatchCurate(d) ==
    /\ pass' = [pass EXCEPT ![d] = "batch"]
    /\ LET out == BatchTransform(raw[d], d)
       IN  curated' = IF raw[d] = EmptyBag \/ out = EmptyBag
                      THEN curated
                      ELSE [curated EXCEPT ![OutputKey(d)] = Object(out)]
    /\ UNCHANGED <<raw, reqVars, restVars>>

\* AppleAnalyticsDataCurator.process_downloads_files(app, [d]): the curated frame is
\* saved whenever the combined raw frame is not empty
ProductionCurate(d) ==
    /\ pass' = [pass EXCEPT ![d] = "production"]
    /\ curated' = IF raw[d] = EmptyBag
                  THEN curated
                  ELSE [curated EXCEPT ![OutputKey(d)] = Object(ProductionTransform(raw[d]))]
    /\ UNCHANGED <<raw, reqVars, restVars>>

\* UnifiedONETIMEETL._transform_file on a raw file holding line r: the lines of the
\* file with the columns app_id, dt and processed_at = datetime.now added (no filter,
\* drop_duplicates of whole lines), stored under the base name of the raw file
TransformFile(r, date_str, t) ==
    [line |-> r, dt |-> date_str, processed_at |-> t]

\* UnifiedONETIMEETL.transform_app_data(app, d): every raw file under dt=d is
\* transformed and stored as <base name>.parquet under the curated prefix of d
TransformAppData(d) ==
    /\ clock < MaxClock
    /\ clock' = clock + 1
    /\ pass' = [pass EXCEPT ![d] = "onetime"]
    /\ otCurated' =
          IF raw[d] = EmptyBag
          THEN otCurated
          ELSE [otCurated EXCEPT ![d] =
                   [o \in {TransformFile(r, d, clock) : r \in BagToSet(raw[d])} |->
                       raw[d][o.line]]]
    /\ UNCHANGED <<raw, curated, reqVars, restOt>>

----------------------------------------------------------------------------
(* Completion polling: AppleAnalyticsRequestor.poll_request_completion *)

\* the values of the 'status' and 'state' attributes; "" is a missing, null or
\* empty attribute, "QUEUED" a value the code does not know
PollStatuses == {"", "COMPLETED", "FAILED", "PROCESSING", "SCHEDULED", "QUEUED"}

\* the answer to GET analyticsReportRequests/<id>: its status code (EXC: the call
\* raised), whether the body has data.attributes, and the two attributes
StatusResponses ==
    {r \in [code : {200, 500, EXC}, wellformed : BOOLEAN,
            status : PollStatuses, state : PollStatuses] :
        /\ r.code # 200 => ~r.wellformed
        /\ ~r.wellformed => (r.status = "" /\ r.state = "")}

\* the answer to GET analyticsReportRequests/<id>/instances
ProbeResponses ==
    {q \in [code : {200, 404, 500, EXC}, instances : 0..1] :
        q.instances > 0 => q.code = 200}

\* status = attrs.get('status') or attrs.get('state')
ExtractStatus(r) == IF r.status # "" THEN r.status ELSE r.state

\* _check_instances_availability: True only for a 200 with at least one instance
CheckInstancesAvailability(q) == q.code = 200 /\ q.instances > 0

PollResult(kind, obs, probed, update) ==
    [kind |-> kind, obs |-> obs, probed |-> probed, update |-> update]

\* mutations of PollOutcome
PollOutcomeNoProbe(r, q) ==
    IF r.code = 200 /\ r.wellformed /\ ExtractStatus(r) = ""
    THEN PollResult("continue", "nostatus", FALSE, "")
    ELSE PollResult("continue", "other", FALSE, "")

PollOutcomeFailedContinues(r, q) ==
    IF r.code = 200 /\ r.wellformed /\ ExtractStatus(r) = "FAILED"
    THEN PollResult("continue", "FAILED", FALSE, "FAILED")
    ELSE PollResult("continue", "other", FALSE, "")

PollOutcomeProcessingReady(r, q) ==
    IF r.code = 200 /\ r.wellformed /\ ExtractStatus(r) = "PROCESSING"
    THEN PollResult("true", "PROCESSING", FALSE, "COMPLETED")
    ELSE PollResult("continue", "other", FALSE, "")

PollOutcomeUnknownFails(r, q) ==
    IF r.code = 200 /\ r.wellformed /\ ExtractStatus(r) = "QUEUED"
    THEN PollResult("false", "QUEUED", FALSE, "")
    ELSE PollResult("continue", "other", FALSE, "")

\* one iteration of the polling loop on the status answer r (and, when the
\* fallback runs, the probe answer q): what the iteration does ("true"/"false":
\* return that value, "continue": sleep and go on), what it observed, whether it
\* probed the instances and which status it wrote to the request state
PollOutcome(r, q) ==
    IF r.code = EXC THEN PollResult("continue", "exception", FALSE, "")
    ELSE IF r.code # 200 THEN PollResult("continue", "non200", FALSE, "")
    ELSE IF ~r.wellformed THEN PollResult("continue", "malformed", FALSE, "")
    ELSE LET status == ExtractStatus(r)
         IN  IF status # ""
             THEN IF status = "COMPLETED"
                  THEN PollResult("true", status, FALSE, "COMPLETED")
                  ELSE IF status = "FAILED"
                  THEN PollResult("false", status, FALSE, "FAILED")
                  ELSE PollResult("continue", status, FALSE, "")
             ELSE IF CheckInstancesAvailability(q)
                  THEN PollResult("true", "nostatus", TRUE, "COMPLETED")
                  ELSE PollResult("continue", "nostatus", TRUE, "")

\* a mutation of LoopContinues: one iteration more
LoopContinuesOneMore(poll_count, max_polls) == poll_count <= max_polls

\* for poll_count in range(max_polls)
LoopContinues(poll_count, max_polls) == poll_count < max_polls

IdlePoller ==
    [pc |-> "idle", max_polls |-> 0, fetches |-> 0, ret |-> "none", how |-> "none",
     seen |-> <<>>, probes |-> <<>>, found |-> <<>>, update |-> ""]

\* poll_request_completion(request_id, max_polls) is called
StartPoll(max_polls) ==
    /\ poller.pc = "idle"
    /\ poller' = [IdlePoller EXCEPT !.pc = "loop", !.max_polls = max_polls]
    /\ UNCHANGED <<reqVars, curVars, otVars, restPoll>>

\* one iteration of the loop: the status fetch, the fallback probe, the state update
Poll(r, q) ==
    /\ poller.pc = "loop"
    /\ LoopContinues(poller.fetches, poller.max_polls)
    /\ LET o == PollOutcome(r, q)
           p1 == [poller EXCEPT !.fetches = @ + 1,
                                !.seen = Append(@, o.obs),
                                !.probes = Append(@, o.probed),
                                !.found = Append(@, o.probed /\ CheckInstancesAvailability(q)),
                                !.update = IF o.update # "" THEN o.update ELSE @]
       IN  poller' = IF o.kind = "continue"
                     THEN p1
                     ELSE [p1 EXCEPT !.pc = "done", !.ret = o.kind,
                                     !.how = IF o.kind = "false" THEN "failed"
                                             ELSE IF o.probed THEN "probe" ELSE "completed"]
    /\ UNCHANGED <<reqVars, curVars, otVars, restPoll>>

\* the loop is exhausted: the timeout warning and return False
PollTimeout ==
    /\ poller.pc = "loop"
    /\ ~LoopContinues(poller.fetches, poller.max_polls)
    /\ poller' = [poller EXCEPT !.pc = "done", !.ret = "false", !.how = "timeout"]
    /\ UNCHANGED <<reqVars, curVars, otVars, restPoll>>

NextPoll ==
    \/ \E max_polls \in 0..MaxPolls : StartPoll(max_polls)
    \/ \E r \in StatusResponses, q \in ProbeResponses : Poll(r, q)
    \/ PollTimeout

----------------------------------------------------------------------------
(* The fetch pipeline: instances -> segments -> download -> raw key            *)
(* UnifiedETL._download_instance_data (DailyETL._download_instance_data is the *)
(* same code) and FocusedAppleDataExtractor.extract_instance_data              *)

FetchPaths == {"unified", "focused"}

\* the matching instances of the report, and the segments each one lists
InstanceList == <<"i1", "i2">>
SegmentsOf(i) == IF i = "i1" THEN <<"s1", "s2">> ELSE <<"s3">>
AllSegments == {"s1", "s2", "s3"}

TargetDate == 7       \* the processing date the run extracts (target_date)
RunDay == 9           \* the date of datetime.now() while the pipeline runs

\* what the upstream answers for one segment: whether the segment lists its url
\* inline, what GET analyticsReportSegments/<id> does, whether the download works
SegmentInputs ==
    {x \in [inline : BOOLEAN,
            detail : {"ok", "no_url", "non200", "raises", "malformed"},
            download_ok : BOOLEAN] :
        /\ x.inline => x.detail = "ok"
        /\ (~x.inline /\ x.detail # "ok") => x.download_ok}

\* _download_and_save / download_and_save_csv: every failure is caught inside
Download(x) == IF x.download_ok THEN "landed" ELSE "skipped"

\* the body of the 'for segment in segments' loop for one segment: "landed", "skipped"
\* (nothing written, the loop goes on) or "raised" (an exception leaves the loop)
HandleSegment(path, x) ==
    IF path = "unified" /\ x.inline THEN Download(x)
    ELSE IF x.detail = "raises" THEN "raised"
    ELSE IF x.detail = "non200" THEN "skipped"
    ELSE IF x.detail = "malformed" THEN "raised"
    ELSE IF x.detail = "no_url" THEN "skipped"
    ELSE Download(x)

\* the S3 key of the raw artifact of segment seg: unified writes
\* dt=<target_date>/.../<name>_<segment>.csv, focused writes
\* dt=<today>/.../<name>_<segment>_<timestamp>.csv
RawKey(path, target_date, seg, t) ==
    IF path = "unified"
    THEN [dt |-> target_date, seg |-> seg, ts |-> 0]
    ELSE [dt |-> RunDay, seg |-> seg, ts |-> t]

GoodInput == [inline |-> TRUE, detail |-> "ok", download_ok |-> TRUE]

IdleFetcher ==
    [pc |-> "idle", path |-> "unified", plan |-> [s \in AllSegments |-> GoodInput],
     inst |-> 1, seg |-> 1, t |-> 0,
     results |-> [s \in AllSegments |-> "unreached"]]

\* the loop over the matching instances starts, at instant t + 1
StartFetch(path, plan) ==
    /\ fetcher.pc = "idle"
    /\ fetcher.t < MaxRuns
    /\ fetcher' = [IdleFetcher EXCEPT !.pc = "loop", !.path = path, !.plan = plan,
                                      !.t = fetcher.t + 1]
    /\ UNCHANGED <<rawStore, reqVars, curVars, otVars, pollVars, runVars, extVars, ext2Vars>>

\* the next segment of the current instance is handled; an exception is caught
\* around the whole segment loop and ends the instance
FetchSegment ==
    /\ fetcher.pc = "loop"
    /\ LET segs == SegmentsOf(InstanceList[fetcher.inst])
           s == segs[fetcher.seg]
           res == HandleSegment(fetcher.path, fetcher.plan[s])
           f1 == [fetcher EXCEPT !.results[s] = res]
           nextInst == IF fetcher.inst < Len(InstanceList)
                       THEN [f1 EXCEPT !.inst = @ + 1, !.seg = 1]
                       ELSE [f1 EXCEPT !.pc = "done"]
       IN  /\ rawStore' = IF res = "landed"
                          THEN rawStore \cup
                               {RawKey(fetcher.path, TargetDate, s, fetcher.t)}
                          ELSE rawStore
           /\ fetcher' = IF res # "raised" /\ fetcher.seg < Len(segs)
                         THEN [f1 EXCEPT !.seg = @ + 1]
                         ELSE nextInst
    /\ UNCHANGED <<reqVars, curVars, otVars, pollVars, runVars, extVars, ext2Vars>>

\* the fetch returns; the raw artifacts stay
FinishFetch ==
    /\ fetcher.pc = "done"
    /\ fetcher' = [IdleFetcher EXCEPT !.t = fetcher.t]
    /\ UNCHANGED <<rawStore, reqVars, curVars, otVars, pollVars, runVars, extVars, ext2Vars>>

NextFetch ==
    \/ \E path \in FetchPaths, plan \in [AllSegments -> SegmentInputs] :
          StartFetch(path, plan)
    \/ FetchSegment
    \/ FinishFetch

----------------------------------------------------------------------------
(* The extract phase of a run over several entities: UnifiedETL.run (ONGOING   *)
(* mode) and UnifiedProductionETL._run_extract_phase                           *)

RunPaths == {"unified", "production"}
RunApps == <<"E1", "E2", "E3">>

\* what happens to one entity: its extraction works, no request id can be had,
\* the reports call answers a non-200 status, or an upstream call raises
EntityOutcomes == {"ok", "unavailable", "status_error", "raises"}

\* the call made for one entity. UnifiedETL.extract_app_data catches every
\* exception and returns its result; FocusedAppleDataExtractor
\* .extract_app_business_data calls _asc_request for the reports outside any try
ExtractEntity(path, outcome) ==
    IF path = "production" /\ outcome = "raises" THEN "raised" ELSE "returned"

IdleRunner ==
    [pc |-> "idle", path |-> "unified", idx |-> 1, seen |-> <<>>, aborted |-> FALSE]

StartRun(path) ==
    /\ runner.pc = "idle"
    /\ runner' = [IdleRunner EXCEPT !.pc = "loop", !.path = path]
    /\ UNCHANGED <<reqVars, curVars, otVars, pollVars, fetchVars, extVars, ext2Vars>>

\* one iteration of 'for app_id in app_ids'; in _run_extract_phase an exception
\* leaves the loop for the except clause of the phase
RunEntity(outcome) ==
    /\ runner.pc = "loop"
    /\ LET res == ExtractEntity(runner.path, outcome)
           r1 == [runner EXCEPT !.seen = Append(@, outcome)]
       IN  runner' = IF res = "raised"
                     THEN [r1 EXCEPT !.pc = "done", !.aborted = TRUE]
                     ELSE IF runner.idx < Len(RunApps)
                     THEN [r1 EXCEPT !.idx = @ + 1]
                     ELSE [r1 EXCEPT !.pc = "done"]
    /\ UNCHANGED <<reqVars, curVars, otVars, pollVars, fetchVars, extVars, ext2Vars>>

NextRun ==
    \/ \E path \in RunPaths : StartRun(path)
    \/ \E outcome \in EntityOutcomes : RunEntity(outcome)

----------------------------------------------------------------------------
(* _should_trust_registry on its own, with the clock in hours: the entry's    *)
(* created_at is missing, does not parse, or is an instant; the age is the    *)
(* timedelta now - created_at and the code compares its .days                 *)

HoursPerDay == 24
CreatedKinds == {"missing", "unparseable", "instant"}
MaxAgeChoices == {1, 2}       \* the max_age_days argument

\* timedelta.days of now - created_at: whole days, rounded towards minus infinity
AgeDays(created_at, now_h) == (now_h - created_at) \div HoursPerDay

\* ShouldTrustRegistryAt with an entry exactly max_age_days old still trusted
ShouldTrustRegistryAtMost(kind, created_at, max_age_days, now_h) ==
    IF kind = "missing" THEN FALSE
    ELSE IF kind = "unparseable" THEN FALSE
    ELSE AgeDays(created_at, now_h) <= max_age_days

\* _should_trust_registry: no created_at -> False; fromisoformat raising -> False;
\* otherwise age.days < max_age_days
ShouldTrustRegistryAt(kind, created_at, max_age_days, now_h) ==
    IF kind = "missing" THEN FALSE
    ELSE IF kind = "unparseable" THEN FALSE
    ELSE AgeDays(created_at, now_h) < max_age_days

IdleTrust == [pc |-> "idle", kind |-> "missing", created_at |-> 0, now |-> 0,
              max_age_days |-> 1, result |-> FALSE]

TrustInputs ==
    [pc : {"input"}, kind : CreatedKinds, created_at : 0..MaxHour, now : 0..MaxHour,
     max_age_days : MaxAgeChoices, result : {FALSE}]

\* an entry is handed to _should_trust_registry
TrustCall(x) ==
    /\ trust.pc = "idle"
    /\ x.kind # "instant" => x.created_at = 0
    /\ trust' = x
    /\ UNCHANGED <<baseVars, purchases, fileReg, pipeline>>

\* it answers
TrustReturn ==
    /\ trust.pc = "input"
    /\ trust' = [trust EXCEPT !.pc = "done",
                    !.result = ShouldTrustRegistryAt(trust.kind, trust.created_at,
                                                     trust.max_age_days, trust.now)]
    /\ UNCHANGED <<baseVars, purchases, fileReg, pipeline>>

NextTrust ==
    \/ \E x \in TrustInputs : TrustCall(x)
    \/ TrustReturn

----------------------------------------------------------------------------
(* Curation of the purchases category: UnifiedETL._transform_dataframe and    *)
(* BatchCurator.process_purchases over the raw rows of one entity and date    *)

Territories == {"US", "DE"}
PurchaseValues == {-2, 0, 3}      \* the 'Purchases' column; a refund is negative
PurchasePaths == {"unified", "batch"}

\* a raw line: its Territory and Purchases columns (the other columns are the same
\* on every line)
PurchaseRows == [Territory : Territories, Purchases : PurchaseValues]

\* the row filter both paths apply: curated[curated['purchases'] > 0]
KeepPurchase(v) == v > 0

RECURSIVE SumPurchases(_, _)
SumPurchases(S, b) ==
    IF S = {} THEN 0
    ELSE LET r == CHOOSE x \in S : TRUE
         IN  r.Purchases * CopiesIn(r, b) + SumPurchases(S \ {r}, b)

\* _transform_dataframe, data_type 'purchases': filter, then group by the key
\* columns and sum
TransformPurchases(b) ==
    LET kept == {r \in BagToSet(b) : KeepPurchase(r.Purchases)}
    IN  {[Territory |-> k,
          purchases |-> SumPurchases({r \in kept : r.Territory = k}, b)] :
             k \in {r.Territory : r \in kept}}

\* process_purchases: filter, then drop_duplicates
ProcessPurchases(b) ==
    {[Territory |-> r.Territory, purchases |-> r.Purchases] :
        r \in {x \in BagToSet(b) : KeepPurchase(x.Purchases)}}

IdlePurchases == [pc |-> "landing", raw |-> EmptyBag, path |-> "unified", curated |-> {}]

\* a raw purchases line lands
LandPurchase(r) ==
    /\ BagCardinality(purchases.raw) < MaxPurchaseRows
    /\ purchases' = [purchases EXCEPT !.pc = "landing", !.raw = @ (+) SetToBag({r})]
    /\ UNCHANGED <<baseVars, trust, fileReg, pipeline>>

\* the purchases of the date are curated by one of the two paths
CuratePurchases(path) ==
    /\ purchases.raw # EmptyBag
    /\ purchases' = [purchases EXCEPT !.pc = "curated", !.path = path,
                        !.curated = IF path = "unified"
                                    THEN TransformPurchases(purchases.raw)
                                    ELSE ProcessPurchases(purchases.raw)]
    /\ UNCHANGED <<baseVars, trust, fileReg, pipeline>>

NextPurchases ==
    \/ \E r \in PurchaseRows : LandPurchase(r)
    \/ \E path \in PurchasePaths : CuratePurchases(path)

----------------------------------------------------------------------------
(* The registry file of the orchestrators: ProductionRequestRegistry of        *)
(* production_manager.py ("manager") and RequestRegistry of                    *)
(* unified_production_etl.py ("etl").  A process loads the file once, when it  *)
(* constructs its registry object, keeps the dict in memory and writes the     *)
(* whole dict back on every registration.                                      *)

Workers == {"W1", "W2"}           \* two processes, each with its own registry object
FileApps == {"A1", "A2"}
RegistryPaths == {"manager", "etl"}
AppOf(w) == IF w = "W1" THEN "A1" ELSE "A2"      \* the entity a worker handles
RidOf(w) == IF w = "W1" THEN "R1" ELSE "R7"      \* the id it registers for it

\* _create_new_registry / the dict _load_registry builds: no entries
CreateNewRegistry == [a \in FileApps |-> NoId]

\* what is at the path of the registry file (or of its backup): nothing, a
\* complete JSON document, a document cut short by a writer, or bytes that do
\* not parse or cannot be read
Missing == [kind |-> "missing", entries |-> CreateNewRegistry]
Complete(e) == [kind |-> "complete", entries |-> e]
Partial == [kind |-> "partial", entries |-> CreateNewRegistry]
Corrupt == [kind |-> "corrupt", entries |-> CreateNewRegistry]
InitialFiles == {Missing, Complete(CreateNewRegistry),
                 Complete([CreateNewRegistry EXCEPT !["A1"] = "R7"]), Corrupt}

\* LoadRegistry letting the exception of json.load out
LoadRegistryRaises(file) ==
    IF file.kind = "missing" THEN [ok |-> TRUE, registry |-> CreateNewRegistry]
    ELSE IF file.kind = "complete" THEN [ok |-> TRUE, registry |-> file.entries]
    ELSE [ok |-> FALSE, registry |-> CreateNewRegistry]

\* _load_registry: the document when the file exists and parses; a new registry
\* when the file is missing or when open / json.load raises (the except clause
\* logs a warning and falls through); ok says that no exception left the loader
LoadRegistry(file) ==
    IF file.kind = "missing" THEN [ok |-> TRUE, registry |-> CreateNewRegistry]
    ELSE IF file.kind = "complete" THEN [ok |-> TRUE, registry |-> file.entries]
    ELSE [ok |-> TRUE, registry |-> CreateNewRegistry]

IdleWorker == [pc |-> "none", registry |-> CreateNewRegistry, saw |-> "none",
               before |-> Missing, exists |-> FALSE, saves |-> 0, saved |-> FALSE]

IdleFileReg == [pc |-> "idle", path |-> "manager", file0 |-> Missing, file |-> Missing,
                backup |-> Missing, w |-> [x \in Workers |-> IdleWorker]]

SavePcs == {"save_rename", "save_open", "save_write"}

\* the state of the file system before the processes start
FileSetup(path, f) ==
    /\ fileReg.pc = "idle"
    /\ fileReg' = [fileReg EXCEPT !.pc = "open", !.path = path, !.file0 = f, !.file = f]
    /\ UNCHANGED <<baseVars, trust, purchases, pipeline>>

\* __init__: self.registry = self._load_registry()
Load(w) ==
    /\ fileReg.pc = "open"
    /\ fileReg.w[w].pc = "none"
    /\ LET r == LoadRegistry(fileReg.file)
       IN  fileReg' = [fileReg EXCEPT !.w[w].pc = IF r.ok THEN "ready" ELSE "failed",
                                      !.w[w].registry = r.registry,
                                      !.w[w].saw = fileReg.file.kind]
    /\ UNCHANGED <<baseVars, trust, purchases, pipeline>>

\* register_new_request / register_ongoing_request up to the first file system
\* call of _save_registry: the entry is set in the dict in memory; the manager
\* then asks registry_file.exists()
RegisterRequest(w) ==
    /\ fileReg.w[w].pc = "ready"
    /\ fileReg.w[w].saves < MaxSaves
    /\ fileReg' = [fileReg EXCEPT
           !.w[w].registry = [@ EXCEPT ![AppOf(w)] = RidOf(w)],
           !.w[w].before = fileReg.file,
           !.w[w].exists = (fileReg.file.kind # "missing"),
           !.w[w].pc = IF fileReg.path = "manager" THEN "save_rename" ELSE "save_open"]
    /\ UNCHANGED <<baseVars, trust, purchases, pipeline>>

\* the manager's backup: registry_file.rename(backup_file) when the file existed;
\* a file renamed away by another process in between makes rename raise, which
\* register_new_request catches (it returns False)
SaveRename(w) ==
    /\ fileReg.w[w].pc = "save_rename"
    /\ fileReg' =
          IF ~fileReg.w[w].exists
          THEN [fileReg EXCEPT !.w[w].pc = "save_open"]
          ELSE IF fileReg.file.kind = "missing"
          THEN [fileReg EXCEPT !.w[w].pc = "ready", !.w[w].saves = @ + 1]
          ELSE [fileReg EXCEPT !.backup = fileReg.file, !.file = Missing,
                               !.w[w].pc = "save_open"]
    /\ UNCHANGED <<baseVars, trust, purchases, pipeline>>

\* open(self.registry_file, 'w'): the file is created or truncated
SaveOpen(w) ==
    /\ fileReg.w[w].pc = "save_open"
    /\ fileReg' = [fileReg EXCEPT !.file = Partial, !.w[w].pc = "save_write"]
    /\ UNCHANGED <<baseVars, trust, purchases, pipeline>>

\* json.dump and the close of the file: the document is whole, unless another
\* process has the same file open for writing (one of them then may leave a
\* document that does not parse)
SaveWrite(w, clean) ==
    /\ fileReg.w[w].pc = "save_write"
    /\ ~clean => \E o \in Workers \ {w} : fileReg.w[o].pc = "save_write"
    /\ fileReg' = [fileReg EXCEPT
           !.file = IF clean THEN Complete(fileReg.w[w].registry) ELSE Partial,
           !.w[w].pc = "ready", !.w[w].saves = @ + 1, !.w[w].saved = TRUE]
    /\ UNCHANGED <<baseVars, trust, purchases, pipeline>>

\* the process dies inside _save_registry
Crash(w) ==
    /\ fileReg.w[w].pc \in SavePcs
    /\ fileReg' = [fileReg EXCEPT !.w[w].pc = "crashed"]
    /\ UNCHANGED <<baseVars, trust, purchases, pipeline>>

NextFile ==
    \/ \E path \in RegistryPaths, f \in InitialFiles : FileSetup(path, f)
    \/ \E w \in Workers : Load(w)
    \/ \E w \in Workers : RegisterRequest(w)
    \/ \E w \in Workers : SaveRename(w)
    \/ \E w \in Workers : SaveOpen(w)
    \/ \E w \in Workers, clean \in BOOLEAN : SaveWrite(w, clean)
    \/ \E w \in Workers : Crash(w)

----------------------------------------------------------------------------
(* The order of the steps of a run: UnifiedETL.run in ONGOING mode ("unified": *)
(* for each date, extract_app_data for each app, then transform_to_parquet)    *)
(* and main of apple_analytics_client.py ("client": one app, request, poll,    *)
(* download).  Every step taken is appended to a log.                          *)

PipePaths == {"unified", "client"}
PipeDates == <<7, 6>>                 \* 'for date_str in dates'
PipeApps(path) == IF path = "unified" THEN <<"E1", "E2">> ELSE <<"E1">>
FetchEnds == {"returned", "connection_error", "error"}

Event(step, p) == [step |-> step, app |-> PipeApps(p.path)[p.a], date |-> PipeDates[p.d]]

IdlePipeline == [pc |-> "idle", path |-> "unified", d |-> 1, a |-> 1, attempt |-> 0,
                 log |-> <<>>]

\* extract_app_data has returned: the next app of the date, or the transform
NextApp(p) ==
    IF p.path = "client" THEN [p EXCEPT !.pc = "done"]
    ELSE IF p.a < Len(PipeApps(p.path))
    THEN [p EXCEPT !.a = @ + 1, !.attempt = 0, !.pc = "validate"]
    ELSE [p EXCEPT !.pc = "curate"]

StartPipeline(path) ==
    /\ pipeline.pc = "idle"
    /\ pipeline' = [IdlePipeline EXCEPT !.pc = "validate", !.path = path]
    /\ UNCHANGED <<baseVars, trust, purchases, fileReg>>

\* create_or_reuse_ongoing_request / create_or_reuse_one_time_request returns an
\* id (got) or None; extract_app_data goes straight on to the reports of the
\* request, main polls first
PipeValidate(got) ==
    /\ pipeline.pc = "validate"
    /\ LET p1 == [pipeline EXCEPT !.log =
                      Append(@, Event(IF got THEN "validated" ELSE "unavailable", pipeline))]
       IN  pipeline' = IF ~got THEN NextApp(p1)
                       ELSE IF pipeline.path = "client" THEN [p1 EXCEPT !.pc = "poll"]
                       ELSE [p1 EXCEPT !.pc = "fetch"]
    /\ UNCHANGED <<baseVars, trust, purchases, fileReg>>

\* main: completed = poll_request_completion(request_id, max_polls=60)
PipePoll(completed) ==
    /\ pipeline.pc = "poll"
    /\ pipeline' = [pipeline EXCEPT
           !.log = Append(@, Event(IF completed THEN "ready" ELSE "timed_out", pipeline)),
           !.pc = IF completed THEN "fetch" ELSE "done"]
    /\ UNCHANGED <<baseVars, trust, purchases, fileReg>>

\* the GET of the reports of the request / download_analytics_files begins
PipeFetchStart ==
    /\ pipeline.pc = "fetch"
    /\ pipeline' = [pipeline EXCEPT !.log = Append(@, Event("fetch_started", pipeline)),
                                   !.pc = "fetching"]
    /\ UNCHANGED <<baseVars, trust, purchases, fileReg>>

\* the fetch ends; in extract_app_data a ConnectionError or TimeoutError starts
\* the next attempt while attempt < max_retries - 1
PipeFetchEnd(how) ==
    /\ pipeline.pc = "fetching"
    /\ LET p1 == [pipeline EXCEPT !.log = Append(@, Event("fetch_finished", pipeline))]
       IN  pipeline' =
             IF pipeline.path = "unified" /\ how = "connection_error"
                /\ pipeline.attempt < MaxRetries - 1
             THEN [p1 EXCEPT !.attempt = @ + 1, !.pc = "validate"]
             ELSE NextApp(p1)
    /\ UNCHANGED <<baseVars, trust, purchases, fileReg>>

\* transform_to_parquet(date_str), after the loop over the apps of the date
PipeCurate ==
    /\ pipeline.pc = "curate"
    /\ LET p1 == [pipeline EXCEPT !.log =
                      Append(@, [step |-> "curate", app |-> "*", date |-> PipeDates[pipeline.d]])]
       IN  pipeline' = IF pipeline.d < Len(PipeDates)
                       THEN [p1 EXCEPT !.d = @ + 1, !.a = 1, !.attempt = 0, !.pc = "validate"]
                       ELSE [p1 EXCEPT !.pc = "done"]
    /\ UNCHANGED <<baseVars, trust, purchases, fileReg>>

NextPipeline ==
    \/ \E path \in PipePaths : StartPipeline(path)
    \/ \E got \in BOOLEAN : PipeValidate(got)
    \/ \E completed \in BOOLEAN : PipePoll(completed)
    \/ PipeFetchStart
    \/ \E how \in FetchEnds : PipeFetchEnd(how)
    \/ PipeCurate


----------------------------------------------------------------------------
(* _asc_request: the attempt loop around requests.request, the refresh and    *)
(* resend on a 401, the retry of connection errors                            *)

\* what requests.request does: a response with a status code, a connection
\* error (ConnectionError, Timeout, ChunkedEncodingError) or another exception
HttpStatuses == {"200", "401", "429", "500"}
HttpAnswers == HttpStatuses \cup {"conn_error", "exception"}

\* what follows an exception of requests.request in attempt number attempt
AfterException(ans, attempt, max_retries) ==
    IF ans = "conn_error" /\ attempt < max_retries - 1 THEN "next_attempt" ELSE "raise"

\* what follows the first send of an attempt
AfterSend(ans, attempt, max_retries) ==
    IF ans \notin HttpStatuses THEN AfterException(ans, attempt, max_retries)
    ELSE IF ans = "401" THEN "refresh"
    ELSE "return"

\* AfterResend refreshing and sending again on a second 401
AfterResendAgain(ans, attempt, max_retries) ==
    IF ans \notin HttpStatuses THEN AfterException(ans, attempt, max_retries)
    ELSE IF ans = "401" THEN "refresh"
    ELSE "return"

\* what follows the send that comes after the refresh: its response is returned
\* whatever the status
AfterResend(ans, attempt, max_retries) ==
    IF ans \notin HttpStatuses THEN AfterException(ans, attempt, max_retries)
    ELSE "return"

IdleHttp == [pc |-> "idle", attempt |-> 0, log |-> <<>>, result |-> "none"]

HttpEvent(kind, ans) == [kind |-> kind, ans |-> ans]

\* the step after a send or a resend
HttpAfter(h, what, ans) ==
    IF what = "return" THEN [h EXCEPT !.pc = "done", !.result = ans]
    ELSE IF what = "raise" THEN [h EXCEPT !.pc = "done", !.result = "raised"]
    ELSE IF what = "refresh" THEN [h EXCEPT !.pc = "refresh"]
    ELSE [h EXCEPT !.pc = "send", !.attempt = @ + 1]

\* _asc_request is called; a token past its lifetime is refreshed first, and a
\* refresh that fails raises
StartRequest(need_refresh, ok) ==
    /\ http.pc = "idle"
    /\ ~need_refresh => ok
    /\ http' = IF ~need_refresh THEN [IdleHttp EXCEPT !.pc = "send"]
               ELSE [IdleHttp EXCEPT !.log = <<HttpEvent("refresh_before", IF ok THEN "ok" ELSE "failed")>>,
                                     !.pc = IF ok THEN "send" ELSE "done",
                                     !.result = IF ok THEN "none" ELSE "raised"]
    /\ UNCHANGED <<coreVars, classifier, landing, summary>>

\* response = requests.request(...) at the top of an attempt
Send(ans) ==
    /\ http.pc = "send"
    /\ http' = HttpAfter([http EXCEPT !.log = Append(@, HttpEvent("send", ans))],
                         AfterSend(ans, http.attempt, MaxRetries), ans)
    /\ UNCHANGED <<coreVars, classifier, landing, summary>>

\* self._refresh_headers() after a 401; its exception leaves _asc_request
Refresh(ok) ==
    /\ http.pc = "refresh"
    /\ http' = [http EXCEPT !.log = Append(@, HttpEvent("refresh", IF ok THEN "ok" ELSE "failed")),
                            !.pc = IF ok THEN "resend" ELSE "done",
                            !.result = IF ok THEN "none" ELSE "raised"]
    /\ UNCHANGED <<coreVars, classifier, landing, summary>>

\* the second requests.request of the attempt
Resend(ans) ==
    /\ http.pc = "resend"
    /\ http' = HttpAfter([http EXCEPT !.log = Append(@, HttpEvent("resend", ans))],
                         AfterResend(ans, http.attempt, MaxRetries), ans)
    /\ UNCHANGED <<coreVars, classifier, landing, summary>>

NextHttp ==
    \/ \E need_refresh \in BOOLEAN, ok \in BOOLEAN : StartRequest(need_refresh, ok)
    \/ \E ans \in HttpAnswers : Send(ans)
    \/ \E ok \in BOOLEAN : Refresh(ok)
    \/ \E ans \in HttpAnswers : Resend(ans)

----------------------------------------------------------------------------
(* The classification of a report by its name: UnifiedETL._get_report_type,   *)
(* DailyETL._download_and_save and                                            *)
(* FocusedAppleDataExtractor.download_and_save_csv.  A name is the set of the *)
(* words it is made of; a rule matches when its keyword is a substring of     *)
(* one of them.                                                               *)

Words == {"download", "downloads", "engagement", "discovery", "impression",
          "session", "sessions", "install", "installs", "installation", "deletion",
          "purchase", "purchases", "subscription", "review", "rating",
          "performance", "crash"}

\* 'kw' in report_lower: the keyword is a substring of one of the words
Contains(name, kw) ==
    LET with == IF kw = "download" THEN {"download", "downloads"}
                ELSE IF kw = "session" THEN {"session", "sessions"}
                ELSE IF kw = "install" THEN {"install", "installs", "installation"}
                ELSE IF kw = "purchase" THEN {"purchase", "purchases"}
                ELSE {kw}
    IN  name \cap with # {}

\* the three extractors
Extractors == {"unified", "daily", "focused"}

\* the if / elif chains, in their order: the keywords of each rule and its category
RuleTable(path) ==
    IF path = "unified"
    THEN <<<<{"download"}, "downloads">>,
           <<{"engagement", "discovery", "impression"}, "engagement">>,
           <<{"session"}, "sessions">>,
           <<{"install"}, "installs">>,
           <<{"purchase", "subscription"}, "purchases">>,
           <<{"review", "rating"}, "reviews">>>>
    ELSE IF path = "daily"
    THEN <<<<{"download"}, "downloads">>,
           <<{"engagement", "discovery"}, "engagement">>,
           <<{"session"}, "sessions">>,
           <<{"install"}, "installs">>,
           <<{"purchase"}, "purchases">>>>
    ELSE <<<<{"downloads"}, "downloads">>,
           <<{"installation", "deletion"}, "installs">>,
           <<{"sessions"}, "sessions">>,
           <<{"purchases"}, "purchases">>,
           <<{"discovery", "engagement"}, "engagement">>,
           <<{"performance"}, "performance">>>>

\* the final else of the three chains
CatchAll == "analytics"

\* the category of the first rule of the table one of whose keywords the name
\* contains; the catch-all when there is none
GetReportType(path, name) ==
    LET t == RuleTable(path)
        hits == {i \in 1..Len(t) : \E kw \in t[i][1] : Contains(name, kw)}
    IN  IF hits = {} THEN CatchAll
        ELSE t[CHOOSE i \in hits : \A j \in hits : i <= j][2]

NotClassified == "-"
IdleClassifier == [pc |-> "idle", name |-> {}, cat |-> [p \in Extractors |-> NotClassified]]

\* a report of this name is listed by the upstream
ListReport(name) ==
    /\ classifier.pc = "idle"
    /\ classifier' = [IdleClassifier EXCEPT !.pc = "listed", !.name = name]
    /\ UNCHANGED <<coreVars, http, landing, summary>>

\* one of the extractors lands a segment of the report and classifies it
ClassifyReport(path) ==
    /\ classifier.pc = "listed"
    /\ classifier.cat[path] = NotClassified
    /\ classifier' = [classifier EXCEPT !.cat[path] = GetReportType(path, classifier.name)]
    /\ UNCHANGED <<coreVars, http, landing, summary>>

NextClassifier ==
    \/ \E name \in {n \in SUBSET Words : Cardinality(n) <= MaxWords} : ListReport(name)
    \/ \E path \in Extractors : ClassifyReport(path)

----------------------------------------------------------------------------
(* The landing of the instances of a report under dt=: the instance loops of  *)
(* UnifiedETL.extract_app_data, DailyETL.extract_reports_for_date and         *)
(* FocusedAppleDataExtractor.extract_app_business_data, with the key each of  *)
(* them writes.                                                               *)

LandingDates == {6, 7}
NoProcessingDate == 0          \* the instance has no processingDate attribute

\* the instances an extractor downloads: the filter on processingDate, where
\* there is one
MatchingInstance(path, processing_date, target_date) ==
    IF path = "unified"
    THEN processing_date # NoProcessingDate /\ processing_date = target_date
    ELSE TRUE

\* the dt= component of the key: the target date, or datetime.now() in the
\* focused extractor
LandingDt(path, target_date, today) ==
    IF path = "focused" THEN today ELSE target_date

IdleLanding == [pc |-> "idle", path |-> "unified", target_date |-> 6, today |-> 6,
                seen |-> 0, store |-> {}]

\* an extractor starts on the instances of a report
StartInstances(path, target_date, today) ==
    /\ landing.pc = "idle"
    /\ today >= target_date
    /\ landing' = [landing EXCEPT !.pc = "instances", !.path = path,
                                  !.target_date = target_date, !.today = today,
                                  !.seen = 0]
    /\ UNCHANGED <<coreVars, http, classifier, summary>>

\* one pass of the instance loop: the instance is downloaded when it passes
\* the filter, and its segments are landed when they have rows
LandInstance(processing_date, has_rows) ==
    /\ landing.pc = "instances"
    /\ landing.seen < MaxInstances
    /\ landing' = [landing EXCEPT
          !.seen = @ + 1,
          !.store = IF MatchingInstance(landing.path, processing_date, landing.target_date)
                       /\ has_rows
                    THEN @ \cup {[dt |-> LandingDt(landing.path, landing.target_date,
                                                     landing.today),
                                  processing_date |-> processing_date]}
                    ELSE @]
    /\ UNCHANGED <<coreVars, http, classifier, summary>>

\* the loop is over
EndInstances ==
    /\ landing.pc = "instances"
    /\ landing' = [landing EXCEPT !.pc = "idle"]
    /\ UNCHANGED <<coreVars, http, classifier, summary>>

NextLanding ==
    \/ \E path \in Extractors, target_date \in LandingDates, today \in LandingDates :
          StartInstances(path, target_date, today)
    \/ \E processing_date \in LandingDates \cup {NoProcessingDate}, has_rows \in BOOLEAN :
          LandInstance(processing_date, has_rows)
    \/ EndInstances

----------------------------------------------------------------------------
(* The run summary: the loops over the apps of UnifiedETL.run (ongoing mode)  *)
(* and DailyETL.run, with the result each extraction returns.                 *)

SummaryPaths == {"unified", "daily"}
SummaryApps == <<"E1", "E2", "E3">>
\* the result of extract_app_data / extract_reports_for_date
ExtractResult(app, outcome) ==
    IF outcome \in {"data", "no_data"}
    THEN [app_id |-> app, success |-> TRUE,
          files |-> IF outcome = "data" THEN 1 ELSE 0, errors |-> <<>>]
    ELSE [app_id |-> app, success |-> FALSE, files |-> 0,
          errors |-> <<[app |-> app, error |-> outcome]>>]

\* self.results after the result of one app is counted
CountResult(path, results, result) ==
    [results EXCEPT
       !.apps_processed = @ + 1,
       !.apps_successful = IF result.success THEN @ + 1 ELSE @,
       !.files = IF result.success THEN @ + result.files ELSE @,
       !.errors = IF path = "daily" /\ ~result.success THEN @ \o result.errors ELSE @]

IdleSummary == [pc |-> "idle", path |-> "unified",
                results |-> [apps_processed |-> 0, apps_successful |-> 0, files |-> 0,
                             errors |-> <<>>],
                returned |-> <<>>]

\* run() starts
StartSummaryRun(path) ==
    /\ summary.pc = "idle"
    /\ summary' = [IdleSummary EXCEPT !.pc = "apps", !.path = path]
    /\ UNCHANGED <<coreVars, http, classifier, landing>>

\* one pass of the loop over the apps
ProcessApp(outcome) ==
    /\ summary.pc = "apps"
    /\ Len(summary.returned) < Len(SummaryApps)
    /\ LET result == ExtractResult(SummaryApps[Len(summary.returned) + 1], outcome)
       IN  summary' = [summary EXCEPT
                         !.returned = Append(@, result),
                         !.results = CountResult(summary.path, @, result)]
    /\ UNCHANGED <<coreVars, http, classifier, landing>>

\* the loop is over and the summary is printed
PrintSummary ==
    /\ summary.pc = "apps"
    /\ Len(summary.returned) = Len(SummaryApps)
    /\ summary' = [summary EXCEPT !.pc = "done"]
    /\ UNCHANGED <<coreVars, http, classifier, landing>>

NextSummary ==
    \/ \E path \in SummaryPaths : StartSummaryRun(path)
    \/ \E outcome \in {"data", "no_data", "no_request", "reports_status", "exception"} :
          ProcessApp(outcome)
    \/ PrintSummary


InitRest ==
    /\ otCurated = [d \in PDates |-> EmptyBag]
    /\ clock = 0
    /\ poller = IdlePoller
    /\ fetcher = IdleFetcher
    /\ rawStore = {}
    /\ runner = IdleRunner
    /\ trust = IdleTrust
    /\ purchases = IdlePurchases
    /\ fileReg = IdleFileReg
    /\ pipeline = IdlePipeline
    /\ http = IdleHttp
    /\ classifier = IdleClassifier
    /\ landing = IdleLanding
    /\ summary = IdleSummary

InitCur ==
    /\ raw = [d \in PDates |-> EmptyBag]
    /\ curated = [d \in PDates |-> NoObject]
    /\ pass = [d \in PDates |-> "none"]

NextCur ==
    \/ \E d \in PDates, r \in RawRows : Land(d, r)
    \/ \E d \in PDates : UnifiedCurate(d)
    \/ \E d \in PDates : BatchCurate(d)
    \/ \E d \in PDates : ProductionCurate(d)

InitCurOnly ==
    /\ InitCur
    /\ InitRest
    /\ registry = EmptyRegistry /\ now = 0 /\ call = IdleCall /\ prev = NoPrev
    /\ requestState = NoRequestState

SpecCur == InitCurOnly /\ [][NextCur]_vars

\* the unified and the one-time transform over the same raw prefix
NextOt ==
    \/ \E d \in PDates, r \in RawRows : Land(d, r)
    \/ \E d \in PDates : UnifiedCurate(d)
    \/ \E d \in PDates : TransformAppData(d)

SpecOt == InitCurOnly /\ [][NextOt]_vars

SpecPoll == InitCurOnly /\ [][NextPoll]_vars

SpecFetch == InitCurOnly /\ [][NextFetch]_vars

SpecRun == InitCurOnly /\ [][NextRun]_vars

SpecTrust == InitCurOnly /\ [][NextTrust]_vars

SpecPurchases == InitCurOnly /\ [][NextPurchases]_vars

SpecFile == InitCurOnly /\ [][NextFile]_vars

SpecPipeline == InitCurOnly /\ [][NextPipeline]_vars

SpecHttp == InitCurOnly /\ [][NextHttp]_vars

SpecClassifier == InitCurOnly /\ [][NextClassifier]_vars

SpecLanding == InitCurOnly /\ [][NextLanding]_vars

SpecSummary == InitCurOnly /\ [][NextSummary]_vars

\* the loop is sequential: an iteration that can run does run
SpecPollFair == InitCurOnly /\ [][NextPoll]_vars /\ WF_vars(NextPoll)

----------------------------------------------------------------------------
(* The request lifecycle as a state machine *)

InitEntries == {NoEntry} \cup [request_id : Rids, created_at : {NoCreatedAt, 0}]

InitReq ==
    /\ registry \in [Keys -> InitEntries]
    /\ now = 0
    /\ call = IdleCall
    /\ prev = NoPrev
    /\ requestState = NoRequestState
    /\ InitCur
    /\ InitRest

NextReq ==
    \/ \E app \in Apps, ok \in BOOLEAN : StartOngoing(app, ok)
    \/ \E resp \in Responses : Verify(resp)
    \/ \E resp \in Responses, ok \in BOOLEAN : Find(resp, ok)
    \/ \E resp \in Responses, ok \in BOOLEAN : Create(resp, ok)
    \/ \E resp \in Responses, ok \in BOOLEAN : Find409(resp, ok)
    \/ \E app \in Apps, range \in Ranges, ok \in BOOLEAN : StartOnetime(app, range, ok)
    \/ \E resp \in Responses : OtValidate(resp)
    \/ \E resp \in Responses, loadOk \in BOOLEAN, saveOk \in BOOLEAN, aj \in Rids \cup {NoId} :
          OtCreate(resp, loadOk, saveOk, aj)
    \/ Finish
    \/ \E step \in TickSteps : Tick(step)

SpecReq == InitReq /\ [][NextReq]_vars

\* one upstream call of a create_or_reuse_ongoing_request in progress
OngoingStep ==
    \/ \E resp \in Responses : Verify(resp)
    \/ \E resp \in Responses, ok \in BOOLEAN : Find(resp, ok)
    \/ \E resp \in Responses, ok \in BOOLEAN : Create(resp, ok)
    \/ \E resp \in Responses, ok \in BOOLEAN : Find409(resp, ok)

NextOngoing ==
    \/ \E app \in Apps, ok \in BOOLEAN : StartOngoing(app, ok)
    \/ OngoingStep
    \/ Finish

\* the calls of the CONTINUOUS path alone; the function is sequential and every
\* upstream call has a timeout, so a call in progress takes its next step
SpecOngoingFair == InitReq /\ [][NextOngoing]_vars /\ WF_vars(OngoingStep)

----------------------------------------------------------------------------
(* Properties of the request lifecycle *)

CallKey == RegistryKeyForApp(call.app, IF call.op = "onetime" THEN "ONE_TIME_SNAPSHOT"
                                                              ELSE "ONGOING")
LastPost == IF call.posts = <<>> THEN "none" ELSE call.posts[Len(call.posts)]
NoNetworkCall ==
    call.verifies = <<>> /\ call.finds = <<>> /\ call.posts = <<>> /\ call.finds409 = <<>>

\* C1: in create_or_reuse_ongoing_request, when the creation POST was answered 409
\* and the lookup that follows received an existing request id R, the call returns
\* exactly R, never None.
C1_ConflictReturnsDiscovered ==
    (call.op = "ongoing" /\ call.pc = "done" /\ LastPost = "409" /\ call.disc409 # NoId)
        => call.result = IdResult(call.disc409)

C1_Witness ==
    /\ call.op = "ongoing" /\ call.pc = "done" /\ LastPost = "409"
    /\ call.disc409 = "R7" /\ call.result = IdResult("R7")

\* C2: when the lookup of the (entity, ONGOING) key yields an entry younger than
\* max_age_days, the call returns that entry's request id at once, with no upstream
\* call; a call that follows a trusted call for the same key returns the same id.
C2_TrustedReuseNoNetwork ==
    LET e == call.reg0[RegistryKeyForApp(call.app, "ONGOING")]
    IN  (/\ call.op = "ongoing"
         /\ e.request_id # NoId /\ call.existing = e.request_id
         /\ e.created_at # NoCreatedAt /\ now - e.created_at < MaxAgeDays)
        => /\ call.pc = "done"
           /\ call.result = IdResult(e.request_id)
           /\ NoNetworkCall
           /\ registry = call.reg0
           /\ (prev.id # NoId /\ prev.app = call.app) => call.result.id = prev.id

C2_Witness ==
    /\ call.op = "ongoing" /\ call.pc = "done" /\ call.path = "trusted"
    /\ prev.id # NoId /\ prev.app = call.app /\ call.result.id = prev.id
    /\ NoNetworkCall /\ now > 0

\* C4: whenever the existence check of a registered, untrusted id is answered 429,
\* the registered id is returned and neither a discovery call nor a creation POST is
\* issued, on the CONTINUOUS and on the FIXED_RANGE path.
C4_RateLimitedAssumedValid ==
    (call.verifies # <<>> /\ call.verifies[1] = "rate_limited")
        => /\ call.pc = "done"
           /\ call.result = IdResult(call.existing)
           /\ call.finds = <<>> /\ call.posts = <<>> /\ call.finds409 = <<>>

\* C5 as stated: every call that returns an id it created or discovered leaves the
\* registry holding that id under the call's key.
C5_EverySuccessPersisted ==
    (call.pc = "done" /\ call.path \in {"created", "discovered", "discovered409"})
        => LoadRequestRegistry(registry, CallKey[1], CallKey[2], TRUE).request_id
               = call.result.id

\* C5 amended: a call that returns an id it created or discovered leaves the
\* registry holding that id under the call's key whenever the store accepted the
\* write; when the write failed the id is returned all the same and the registry is
\* as it was before the call.
C5_PersistedWhenStoreAccepts ==
    (call.pc = "done" /\ call.path \in {"created", "discovered", "discovered409"})
        => /\ call.result.kind = "id" /\ call.result.id # NoId
           /\ call.saved \in {"ok", "failed"}
           /\ call.saved = "ok" =>
                LoadRequestRegistry(registry, CallKey[1], CallKey[2], TRUE).request_id
                    = call.result.id
           /\ call.saved = "failed" => registry = call.reg0

C5_Witness ==
    /\ call.pc = "done" /\ call.path = "discovered409" /\ call.saved = "ok"
    /\ call.result = IdResult("R7") /\ registry[CallKey].request_id = "R7"
    /\ call.reg0[CallKey].request_id # "R7"

C7_UnresolvedConflictIsUnavailable ==
    /\ \A i \in 1..Len(call.posts) : call.posts[i] = "409" => i = Len(call.posts)
    /\ (call.pc = "done" /\ LastPost = "409" /\ call.disc409 = NoId)
           => (call.result = None /\ registry = call.reg0)

C7_Witness ==
    /\ call.op = "ongoing" /\ call.pc = "done" /\ LastPost = "409"
    /\ call.disc409 = NoId /\ call.existing # NoId /\ call.result = None
    /\ Len(call.finds409) = MaxRetries

----------------------------------------------------------------------------
(* Properties of curation *)

KeptTypes == {"First-time download", "Redownload"}

OneLine(m, k, v) == SetToBag({[Date |-> m, DownloadType |-> k, Counts |-> v]})

\* the rows of a curated object for metric date m and download type k
RowsOf(obj, m, k) ==
    {c \in BagToSet(obj.rows) : c.metric_date = m /\ c.download_type = k}

\* the object holds exactly one row for (m, k), and its metric is v
ExactlyOneRow(obj, m, k, v) ==
    /\ obj.exists
    /\ \E c \in RowsOf(obj, m, k) :
          /\ RowsOf(obj, m, k) = {c}
          /\ CopiesIn(c, obj.rows) = 1
          /\ c.total_downloads = v

\* C3: freshest wins: when the same dimensional key of metric date D1 was landed
\* under processing date D1 with value v1 and under D2 > D1 with another value v2,
\* the curated record of metric date D1 holds exactly one row for the key, with v2.
C3_FreshestWins ==
    \A D1 \in PDates, D2 \in PDates, k \in KeptTypes,
       v1 \in CountValues \ {0}, v2 \in CountValues \ {0} :
        (/\ D1 < D2 /\ v1 # v2
         /\ raw[D1] = OneLine(D1, k, v1) /\ raw[D2] = OneLine(D1, k, v2)
         /\ pass[D1] # "none" /\ pass[D2] # "none")
        => ExactlyOneRow(curated[D1], D1, k, v2)

\* C8: aggregation: two raw lines with the same dimensional key and the values 3 and
\* 4, landed under one processing date, give exactly one curated row, with 7.
C8_SumsSharedKey ==
    \A d \in PDates, k \in KeptTypes :
        (/\ raw[d] = OneLine(d, k, 3) (+) OneLine(d, k, 4)
         /\ pass[d] # "none")
        => ExactlyOneRow(curated[d], d, k, 7)

\* C9: no row of a curated downloads record has a download type other than
\* first-time download or redownload.
C9_OnlyFirstTimeAndRedownload ==
    \A d \in PDates :
        curated[d].exists =>
            \A c \in BagToSet(curated[d].rows) : c.download_type \in KeptTypes

\* C10: empty-safe: no curation path writes a curated object without rows.
C10_NoEmptyObject ==
    \A d \in PDates : curated[d].exists => BagToSet(curated[d].rows) # {}

----------------------------------------------------------------------------
(* Properties of repeated curation *)

\* the number of curated objects under the prefix of processing date d
ObjectsAt(d) ==
    (IF curated[d].exists THEN 1 ELSE 0) + BagCardinality(otCurated[d])

\* C11: a curation pass that runs again over the unchanged raw artifacts of a key
\* leaves the curated content of that key as the first pass left it, in at most
\* one object (replace in full, nothing accumulated)
C11_IdempotentReplace ==
    [][\A d \in PDates :
          (/\ pass[d] \in {"unified", "onetime"}
           /\ pass'[d] = pass[d]
           /\ raw' = raw)
          => /\ curated'[d] = curated[d]
             /\ otCurated'[d] = otCurated[d]
             /\ ObjectsAt(d)' <= 1]_vars

\* what a pass over the raw artifacts b of processing date k can write
DerivedFrom(b, k) ==
    {Object(TransformDataframe(b, k)), Object(BatchTransform(b, k)),
     Object(ProductionTransform(b))}

C13_KeyedByMetricDate ==
    \A d \in PDates : curated[d].exists =>
        \A c \in BagToSet(curated[d].rows) : c.metric_date = d

----------------------------------------------------------------------------
(* Properties of completion polling *)

Polls == 1..Len(poller.seen)
LastPoll == Len(poller.seen)

\* C14: a poll whose 200 answer has neither 'status' nor 'state' probes the
\* instances; a probe that finds an instance ends the call with True on that
\* poll, a probe that finds none never ends it (only the exhausted budget does)
C14_FallbackProbe ==
    \A i \in Polls :
        poller.seen[i] = "nostatus" =>
            /\ poller.probes[i]
            /\ poller.found[i] =>
                  (i = LastPoll /\ poller.pc = "done" /\ poller.ret = "true")
            /\ (~poller.found[i] /\ i = LastPoll) =>
                  \/ poller.pc = "loop"
                  \/ (poller.how = "timeout" /\ i = poller.max_polls)

C14_Witness ==
    /\ poller.pc = "done" /\ poller.ret = "true" /\ poller.how = "probe"
    /\ LastPoll = 2 /\ poller.max_polls = 3
    /\ poller.seen[1] = "nostatus" /\ ~poller.found[1]
    /\ poller.seen[2] = "nostatus" /\ poller.found[2]

\* C15: a poll that observes FAILED is the last status fetch of the call, which
\* returns False
C15_FailedStops ==
    \A i \in Polls :
        poller.seen[i] = "FAILED" =>
            /\ i = LastPoll /\ poller.fetches = i
            /\ poller.pc = "done" /\ poller.ret = "false" /\ poller.how = "failed"

C15_Witness ==
    /\ poller.pc = "done" /\ poller.ret = "false"
    /\ poller.seen = <<"PROCESSING", "FAILED">>
    /\ poller.fetches = 2 /\ poller.max_polls = 3

\* C16: the call issues at most max_polls status fetches, a call that ends
\* returns True or False, an exhausted budget returns False, and every call
\* that started ends
C16_AlwaysTerminates ==
    /\ [](/\ poller.fetches <= poller.max_polls
          /\ poller.fetches = Len(poller.seen)
          /\ poller.pc = "done" => poller.ret \in {"true", "false"}
          /\ poller.how = "timeout" =>
                (poller.ret = "false" /\ poller.fetches = poller.max_polls))
    /\ ((poller.pc = "loop") ~> (poller.pc = "done"))

C16_Witness ==
    /\ poller.pc = "done" /\ poller.how = "timeout" /\ poller.ret = "false"
    /\ poller.seen = <<"exception", "non200", "SCHEDULED">>

\* C17: a poll that observes a status other than the four known ones does not
\* end the call: the loop goes on while polls remain
C17_UnknownStatusContinues ==
    \A i \in Polls :
        (poller.seen[i] = "QUEUED" /\ i = LastPoll) =>
            \/ poller.pc = "loop"
            \/ (poller.how = "timeout" /\ i = poller.max_polls)

C17_Witness ==
    /\ poller.seen = <<"QUEUED", "COMPLETED">>
    /\ poller.pc = "done" /\ poller.ret = "true"

----------------------------------------------------------------------------
(* Properties of the fetch pipeline *)

\* C18: when the fetch has gone through its instances, every segment whose own
\* handling does not fail has been landed, whatever happened to the other segments
C18_SegmentIsolation ==
    fetcher.pc = "done" =>
        \A s \in AllSegments :
            HandleSegment(fetcher.path, fetcher.plan[s]) = "landed"
                => fetcher.results[s] = "landed"

\* C19: the raw store holds at most one artifact for a segment under a dt
C19_OneKeyPerSegment ==
    \A k1 \in rawStore, k2 \in rawStore :
        (k1.seg = k2.seg /\ k1.dt = k2.dt) => k1 = k2

----------------------------------------------------------------------------
(* Properties of a run over several entities *)

\* C20: when the extract phase is over, every entity of the run has been
\* processed, whatever happened to the entities before it
C20_FailureContained ==
    runner.pc = "done" => Len(runner.seen) = Len(RunApps)

----------------------------------------------------------------------------
(* Properties of the fall-through after a failed existence check and of the  *)
(* creation retry loop                                                       *)

\* C24: when the registered id is not trusted and its existence check answers 404,
\* create_or_reuse_ongoing_request does not hand the registered id back: it goes on
\* to the discovery lookup (at least one lookup is made before it returns) and
\* ends with the id the lookup found, the id a POST created, the id the lookup of
\* the 409 branch found, or None
C24_NotFoundFallsThrough ==
    (call.op = "ongoing" /\ call.verifies = <<"not_found">>) =>
        /\ call.pc \in {"find", "create", "find409", "done"}
        /\ call.pc = "done" =>
              /\ call.finds # <<>>
              /\ call.path \in {"discovered", "created", "discovered409",
                                 "create_failed", "conflict_unresolved"}
              /\ call.path \in {"create_failed", "conflict_unresolved"} <=>
                     call.result = None
              /\ call.path \in {"created", "discovered409", "create_failed",
                                 "conflict_unresolved"} => call.posts # <<>>
              /\ call.path = "discovered409" => call.result.id = call.disc409

\* a call whose existence check answered 404 and that ended with a created id
C24_Witness ==
    /\ call.op = "ongoing" /\ call.pc = "done"
    /\ call.verifies = <<"not_found">>
    /\ call.existing = "R1"
    /\ call.path = "created" /\ call.result = IdResult("R7")

\* C25: the creation loop of create_or_reuse_ongoing_request is bounded: it sends
\* at most MaxRetries (3) POSTs; when every POST is answered 429 it sends exactly
\* MaxRetries of them, returns None and leaves the registry as it found it; and a
\* POST answered 201 or 409 is the last POST of the call
C25_CreationBounded ==
    call.op = "ongoing" =>
        /\ Len(call.posts) <= MaxRetries
        /\ (call.pc = "done" /\ call.posts # <<>>
              /\ \A i \in 1..Len(call.posts) : call.posts[i] = "429") =>
                 /\ Len(call.posts) = MaxRetries
                 /\ call.result = None
                 /\ registry = call.reg0
        /\ \A i \in 1..Len(call.posts) :
               call.posts[i] \in {"201", "409"} => i = Len(call.posts)

\* a call whose three POSTs were all answered 429
C25_Witness ==
    /\ call.op = "ongoing" /\ call.pc = "done"
    /\ call.posts = <<"429", "429", "429">>
    /\ call.result = None

----------------------------------------------------------------------------
(* Properties of the FIXED_RANGE registry and of what a stale entry does to  *)
(* later calls                                                               *)

\* C22: no registry content keeps a later call from getting a usable id: a call
\* that found the registered id invalid upstream, and whose registry writes were
\* all accepted, does not end by handing the registered entry back with the
\* registry left exactly as it found it (the next call would start from the same
\* registry and end the same way)
C22_NoPoisonedState ==
    (call.pc = "done" /\ call.saved # "failed"
       /\ call.verifies # <<>>
       /\ call.verifies[Len(call.verifies)] \in {"not_found", "invalid"}) =>
          ~(call.result.id = call.existing /\ registry = call.reg0)

\* C23: a get-or-create for one range never hands back, from the registry, an id
\* whose state object says it was requested for another range
C23_KeyedByRange ==
    (call.op = "onetime" /\ call.pc = "done"
       /\ call.path \in {"verified", "registry409"}) =>
          requestState[call.result.id] \in {NoRange, call.range}

----------------------------------------------------------------------------
(* Properties of the trust shortcut *)

\* C26: _should_trust_registry answers True exactly when created_at is an instant
\* and now - created_at is less than max_age_days days (compared in hours, so an
\* age one hour short of the bound is trusted and an age of exactly the bound or
\* one hour more is not); a missing or unparseable created_at is never trusted
C26_TrustIffYounger ==
    trust.pc = "done" =>
        (trust.result <=>
            /\ trust.kind = "instant"
            /\ trust.now - trust.created_at < trust.max_age_days * HoursPerDay)

\* the three ages around the bound of two days have been answered: this one is
\* the age of exactly the bound, which is not trusted
C26_Witness ==
    /\ trust.pc = "done" /\ trust.kind = "instant"
    /\ trust.max_age_days = 2
    /\ trust.now - trust.created_at = 2 * HoursPerDay
    /\ trust.result = FALSE

----------------------------------------------------------------------------
(* Properties of the purchases curation *)

\* the raw lines of b whose Purchases value is not zero
NonzeroRows(b) == {r \in BagToSet(b) : r.Purchases # 0}

\* C27: the curated purchases are made of exactly the raw lines whose Purchases
\* value is not zero, refunds (negative values) included: the unified path holds
\* one row per key with the sum of those lines, the batch path one row per distinct
\* such line
C27_NonzeroKept ==
    purchases.pc = "curated" =>
        purchases.curated =
            IF purchases.path = "unified"
            THEN {[Territory |-> k,
                   purchases |-> SumPurchases({r \in NonzeroRows(purchases.raw) :
                                                  r.Territory = k}, purchases.raw)] :
                      k \in {r.Territory : r \in NonzeroRows(purchases.raw)}}
            ELSE {[Territory |-> r.Territory, purchases |-> r.Purchases] :
                      r \in NonzeroRows(purchases.raw)}

----------------------------------------------------------------------------
(* Properties of the registry file *)

\* no process is between the first and the last file system call of a save
AtRest == \A w \in Workers : fileReg.w[w].pc \notin SavePcs \cup {"crashed"}

\* w is the only process that has touched the file
OnlyWriter(w) ==
    \A o \in Workers \ {w} : fileReg.w[o].saves = 0 /\ fileReg.w[o].pc \in {"none", "ready", "failed"}

\* C28: a save is atomic and keeps a backup: at every moment, also inside a save
\* and after a crash in it, the registry file is what it was before the
\* processes started or a complete document; and once the only writer has
\* finished a save over an existing file, the backup is that previous file
C28_AtomicSaveWithBackup ==
    /\ fileReg.file = fileReg.file0 \/ fileReg.file.kind = "complete"
    /\ \A w \in Workers :
          (fileReg.w[w].saved /\ fileReg.w[w].pc = "ready" /\ OnlyWriter(w)
             /\ fileReg.w[w].before.kind # "missing") =>
                fileReg.backup = fileReg.w[w].before

\* C29: whatever the interleaving of two processes that register different
\* entities, once both are at rest the file holds the entry of every process
\* that completed its save
C29_ParallelSavesKeepEntries ==
    AtRest =>
        \A w \in Workers :
            fileReg.w[w].saved =>
                /\ fileReg.file.kind = "complete"
                /\ fileReg.file.entries[AppOf(w)] = RidOf(w)

\* C30: a registry file that does not parse or cannot be read does not stop the
\* process: the loader returns, and what it returns is a registry without entries
C30_CorruptLoadsEmpty ==
    \A w \in Workers :
        fileReg.w[w].saw \in {"partial", "corrupt"} =>
            /\ fileReg.w[w].pc # "failed"
            /\ fileReg.w[w].saves = 0 /\ fileReg.w[w].pc = "ready" =>
                   fileReg.w[w].registry = CreateNewRegistry

\* a process that loaded a corrupt file went on and completed a registration
C30_Witness ==
    /\ fileReg.file0 = Corrupt
    /\ fileReg.w["W1"].saw = "corrupt"
    /\ fileReg.w["W1"].saved /\ fileReg.w["W1"].pc = "ready"
    /\ fileReg.file = Complete([CreateNewRegistry EXCEPT !["A1"] = "R1"])

----------------------------------------------------------------------------
(* Properties of the order of the steps *)

\* an event of this step for the same app and date stands in the log before place i
LoggedBefore(i, step) ==
    \E j \in 1..(i - 1) :
        /\ pipeline.log[j].step = step
        /\ pipeline.log[j].app = pipeline.log[i].app
        /\ pipeline.log[j].date = pipeline.log[i].date

\* C21: for one entity and one processing date, a fetch starts only after the
\* poll reported the request ready, a poll ends only after validation returned an
\* id, and the curation of a date starts only after every fetch of that date has
\* started and finished
C21_StepOrdering ==
    \A i \in 1..Len(pipeline.log) :
        /\ pipeline.log[i].step = "fetch_started" => LoggedBefore(i, "ready")
        /\ pipeline.log[i].step \in {"ready", "timed_out"} => LoggedBefore(i, "validated")
        /\ pipeline.log[i].step = "curate" =>
              \A j \in 1..Len(pipeline.log) :
                  (pipeline.log[j].step = "fetch_started"
                     /\ pipeline.log[j].date = pipeline.log[i].date) =>
                        /\ j + 1 < i
                        /\ pipeline.log[j + 1].step = "fetch_finished"

----------------------------------------------------------------------------
(* Termination of the CONTINUOUS get-or-create *)

\* C38: whatever the upstream answers, create_or_reuse_ongoing_request makes at
\* most one existence check, at most MaxRetries (3) lookups before creation, at
\* most MaxRetries creation POSTs and at most MaxRetries lookups after a 409; a
\* call that ended returned an id or None; and every call in progress ends
C38_BoundedAndTerminates ==
    /\ [](call.op = "ongoing" =>
            /\ Len(call.verifies) <= 1
            /\ Len(call.finds) <= MaxRetries
            /\ Len(call.posts) <= MaxRetries
            /\ Len(call.finds409) <= MaxRetries
            /\ call.pc = "done" => call.result.kind \in {"id", "none"})
    /\ ((call.pc \in {"verify", "find", "create", "find409"}) ~> (call.pc = "done"))

\* a call that used the whole budget: one check, three lookups, three POSTs the
\* last of which was answered 409, three more lookups, and None at the end
C38_Witness ==
    /\ call.op = "ongoing" /\ call.pc = "done"
    /\ Len(call.verifies) = 1 /\ Len(call.finds) = MaxRetries
    /\ call.posts = <<"429", "429", "409">>
    /\ Len(call.finds409) = MaxRetries
    /\ call.result = None

----------------------------------------------------------------------------
(* What the registry and the caller get on a reuse *)

\* C33: a create_or_reuse_ongoing_request that hands back the registered id after its existence check was
\* answered 200 has written the registry entry of its key (the registry is not
\* what the call found)
C33_ReuseWritesRegistry ==
    (call.op = "ongoing" /\ call.pc = "done" /\ call.path = "verified") =>
        registry[CallKey] # call.reg0[CallKey]

\* C37: create_or_reuse_one_time_request returns None or a request id on every
\* path, and on a 409 with a registry entry the id of that entry itself
C37_AlwaysAnId ==
    (call.op = "onetime" /\ call.pc = "done") =>
        /\ call.result.kind \in {"none", "id"}
        /\ call.path = "registry409" =>
               call.result = IdResult(registry[CallKey].request_id)

----------------------------------------------------------------------------
(* Soundness of the completion detector *)

\* C36: poll_request_completion returns True only on a poll whose 200 answer
\* carried COMPLETED, or carried no status while the probe of the instances
\* found one; every poll before it went on, and a call whose polls saw nothing
\* but PROCESSING, SCHEDULED, other statuses, non-200 answers, malformed bodies
\* and exceptions does not return True
C36_ReadyIsSound ==
    poller.ret = "true" =>
        /\ poller.pc = "done" /\ Polls # {}
        /\ \/ poller.seen[LastPoll] = "COMPLETED"
           \/ poller.seen[LastPoll] = "nostatus" /\ poller.found[LastPoll]
        /\ \A i \in Polls \ {LastPoll} :
               /\ poller.seen[i] \notin {"COMPLETED", "FAILED"}
               /\ ~poller.found[i]

\* True on the third poll, by the probe, after a PROCESSING and a poll whose
\* probe found nothing
C36_Witness ==
    /\ poller.pc = "done" /\ poller.ret = "true"
    /\ poller.seen = <<"PROCESSING", "nostatus", "nostatus">>
    /\ poller.found = <<FALSE, FALSE, TRUE>>

----------------------------------------------------------------------------
(* Properties of the HTTP wrapper *)

\* the places of the log holding an event of this kind
EventsOf(kind) == {i \in 1..Len(http.log) : http.log[i].kind = kind}
Got401 == \E i \in EventsOf("send") : http.log[i].ans = "401"

\* C31 as stated, for a whole call: a call that received a 401 refreshes once,
\* resends once, and ends with the response of that resend
C31_OneRefreshOneRetry ==
    /\ Cardinality(EventsOf("refresh")) <= 1
    /\ Cardinality(EventsOf("resend")) <= 1
    /\ (http.pc = "done" /\ Got401) =>
          /\ Cardinality(EventsOf("refresh")) = 1
          /\ \E i \in EventsOf("resend") : http.result = http.log[i].ans

\* C31, per 401: every first send of an attempt answered 401 is followed by one
\* refresh and, when the refresh worked, by one resend; a resend that got a
\* response, a second 401 included, is the last thing the call does and its
\* response is what the call returns; only a connection error of the resend
\* leads on, to the next attempt, of which there are at most MaxRetries
C31_RefreshAndRetryPer401 ==
    /\ Cardinality(EventsOf("send")) <= MaxRetries
    /\ \A i \in EventsOf("send") :
          (http.log[i].ans = "401" /\ i < Len(http.log)) =>
              http.log[i + 1].kind = "refresh"
    /\ \A i \in EventsOf("refresh") :
          /\ i > 1 /\ http.log[i - 1] = HttpEvent("send", "401")
          /\ i < Len(http.log) =>
                (http.log[i].ans = "ok" /\ http.log[i + 1].kind = "resend")
          /\ (http.log[i].ans = "failed") => (http.pc = "done" /\ http.result = "raised")
    /\ \A i \in EventsOf("resend") :
          /\ http.log[i - 1] = HttpEvent("refresh", "ok")
          /\ http.log[i].ans \in HttpStatuses =>
                (i = Len(http.log) /\ http.pc = "done" /\ http.result = http.log[i].ans)
          /\ i < Len(http.log) =>
                (http.log[i].ans = "conn_error" /\ http.log[i + 1].kind = "send")

\* a 401, the refresh, and a resend answered 401 again, which the caller gets
C31_Witness ==
    /\ http.pc = "done" /\ http.result = "401"
    /\ http.log = <<HttpEvent("send", "401"), HttpEvent("refresh", "ok"),
                    HttpEvent("resend", "401")>>

----------------------------------------------------------------------------
(* Properties of the report classification *)

\* the categories of the specification, with the catch-all under the name the
\* code gives it
Categories == {"downloads", "engagement", "sessions", "installs", "purchases",
               "reviews", CatchAll}

\* C32: a report name has one category, out of the fixed set, whichever extractor
\* classifies it: the category of the first matching rule of the one table, the
\* catch-all when no rule matches
C32_OneTotalTable ==
    \A p \in Extractors, q \in Extractors :
        (classifier.cat[p] # NotClassified /\ classifier.cat[q] # NotClassified) =>
            /\ classifier.cat[p] \in Categories
            /\ classifier.cat[p] = classifier.cat[q]
            /\ classifier.cat[p] = GetReportType("unified", classifier.name)

----------------------------------------------------------------------------
(* Properties of the landing *)

\* C35: whatever is landed under dt=D was downloaded from an instance whose
\* processingDate is D
C35_LandedUnderProcessingDate ==
    \A rec \in landing.store : rec.processing_date = rec.dt

----------------------------------------------------------------------------
(* Properties of the run summary *)

\* C34: at the end of a run no more apps are counted successful than processed,
\* and the error message of every app whose extraction failed is in the error
\* list of the summary
C34_SummaryComplete ==
    summary.pc = "done" =>
        /\ summary.results.apps_successful <= summary.results.apps_processed
        /\ \A i \in 1..Len(summary.returned) :
              ~summary.returned[i].success =>
                 \A k \in 1..Len(summary.returned[i].errors) :
                    \E j \in 1..Len(summary.results.errors) :
                       summary.results.errors[j] = summary.returned[i].errors[k]

====
